---- MODULE Spec2Model ----
(***************************************************************************)
(* WhirlWheel puzzle generator: the grid placer (gridPlacer), the word     *)
(* finder (wordFinder) and the generator facade (generator).               *)
(*                                                                         *)
(* A word is a sequence of one-character strings.  A cell key is the pair  *)
(* <<row, col>> (the source formats it as the string "row,col" and parses  *)
(* it back with split(",").map(Number)).  grid.cells is an insertion-      *)
(* ordered map: a sequence of [key, letter] entries with distinct keys, in *)
(* the order Object.keys / Object.entries enumerates them.                 *)
(***************************************************************************)
EXTENDS Integers, Sequences, FiniteSets, TLC

VARIABLES
  grid,        \* the grid under construction
  prev,        \* the grid the last gridPlacer call was given
  op,          \* the last gridPlacer call
  letters,     \* the letter bag (string[])
  dictionary,  \* the dictionary: the entries of the Set in iteration order
  config,      \* the params of the call
  validWords,  \* the array findValidWords returned
  pc,          \* the position in the call
  selectedWords, \* generatePuzzle: the words selectWords returned
  attempt,     \* generateGridCandidates: the loop counter
  results,     \* generateGridCandidates: the grids kept so far
  result,      \* generatePuzzle: the GeneratorResult returned
  calls,       \* the results earlier calls with the same arguments returned
  wordsArray,  \* useGeneration: the entries of the enhanced wordlist
  deduplicationResult, \* useGeneration: what deduplicateWordsByLetters returned
  generation   \* useGeneration: the Generation that generate returned

gridVars == <<grid, prev, op>>

hookVars == <<wordsArray, deduplicationResult, generation>>

callVars == <<letters, dictionary, config, validWords, pc, selectedWords, attempt, results,
              result, calls, hookVars>>

vars == <<grid, prev, op, letters, dictionary, config, validWords, pc,
          selectedWords, attempt, results, result, calls, wordsArray, deduplicationResult,
          generation>>

-----------------------------------------------------------------------------
(* Bounds of the model *)

\* anchors (row, col) of placeWord / setCell calls are drawn from -MaxCoord..MaxCoord
MaxCoord == 1
\* at most MaxPlaced words are placed on one grid
MaxPlaced == 3
\* setCell is called directly on grids of fewer than MaxCells cells
MaxCells == 2
\* a dictionary given to findValidWords alone holds at most MaxDict entries
MaxDict == 3
\* generatePuzzle is called with candidatesToGenerate in 1..MaxCandidates
MaxCandidates == 2
\* an array of words given to deduplicateWordsByLetters has at most MaxEntries entries
MaxEntries == 3

\* repeated calls of generatePuzzle after the first
MaxCalls == 1
\* validatePlacement and placeWord are probed on grids of at most MaxProbed words
MaxProbed == 2

Coord == (0 - MaxCoord)..MaxCoord

CAT == <<"C", "A", "T">>
ACT == <<"A", "C", "T">>
SAT == <<"S", "A", "T">>
CATS == <<"C", "A", "T", "S">>
CAST == <<"C", "A", "S", "T">>
SOS == <<"S", "O", "S">>

\* the words offered to placeWord
Words == {CAT, ACT, CATS}

\* the letters offered to setCell
CellLetters == {"A", "T"}

Direction == {"horizontal", "vertical"}

Undefined == "undefined"

\* the null a search returns when it places nothing
NoGrid == [null |-> TRUE]

-----------------------------------------------------------------------------
(* gridPlacer *)

createGrid ==
  [cells |-> << >>,
   placedWords |-> << >>,
   bounds |-> [minRow |-> 0, maxRow |-> 0, minCol |-> 0, maxCol |-> 0]]

Min(a, b) == IF a <= b THEN a ELSE b

Max(a, b) == IF a >= b THEN a ELSE b

\* the key `${row},${col}`
CellKey(row, col) == <<row, col>>

\* key.split(",").map(Number)
ParseKey(key) == [row |-> key[1], col |-> key[2]]

\* key in grid.cells
HasCell(g, key) == \E i \in 1..Len(g.cells) : g.cells[i].key = key

getCell(g, row, col) ==
  IF HasCell(g, CellKey(row, col))
  THEN g.cells[CHOOSE i \in 1..Len(g.cells) : g.cells[i].key = CellKey(row, col)].letter
  ELSE Undefined

\* setCell without the first-cell branch: bounds always widened from the old ones
setCellNoFirst(g, row, col, letter) ==
  LET key == CellKey(row, col)
      cells2 == IF \E i \in 1..Len(g.cells) : g.cells[i].key = key
                THEN [i \in 1..Len(g.cells) |->
                        IF g.cells[i].key = key
                        THEN [key |-> key, letter |-> letter]
                        ELSE g.cells[i]]
                ELSE Append(g.cells, [key |-> key, letter |-> letter])
  IN [cells |-> cells2, placedWords |-> g.placedWords,
      bounds |-> [minRow |-> Min(g.bounds.minRow, row),
                  maxRow |-> Max(g.bounds.maxRow, row),
                  minCol |-> Min(g.bounds.minCol, col),
                  maxCol |-> Max(g.bounds.maxCol, col)]]

setCell(g, row, col, letter) ==
  LET cellCount == Len(g.cells)
      key == CellKey(row, col)
      cells2 == IF HasCell(g, key)
                THEN [i \in 1..Len(g.cells) |->
                        IF g.cells[i].key = key
                        THEN [key |-> key, letter |-> letter]
                        ELSE g.cells[i]]
                ELSE Append(g.cells, [key |-> key, letter |-> letter])
      bounds2 == IF cellCount = 0
                 THEN [minRow |-> row, maxRow |-> row, minCol |-> col, maxCol |-> col]
                 ELSE [minRow |-> Min(g.bounds.minRow, row),
                       maxRow |-> Max(g.bounds.maxRow, row),
                       minCol |-> Min(g.bounds.minCol, col),
                       maxCol |-> Max(g.bounds.maxCol, col)]
  IN [cells |-> cells2, placedWords |-> g.placedWords, bounds |-> bounds2]

cloneGrid(g) ==
  [cells |-> [i \in 1..Len(g.cells) |-> g.cells[i]],
   placedWords |-> [i \in 1..Len(g.placedWords) |->
                      [word |-> g.placedWords[i].word,
                       row |-> g.placedWords[i].row,
                       col |-> g.placedWords[i].col,
                       direction |-> g.placedWords[i].direction]],
   bounds |-> [minRow |-> g.bounds.minRow, maxRow |-> g.bounds.maxRow,
               minCol |-> g.bounds.minCol, maxCol |-> g.bounds.maxCol]]

getWordCells(word, row, col, direction) ==
  [i \in 1..Len(word) |->
     [r |-> IF direction = "horizontal" THEN row ELSE row + (i - 1),
      c |-> IF direction = "horizontal" THEN col + (i - 1) ELSE col,
      letter |-> word[i]]]

\* CellCheck without rule 2: a filled perpendicular neighbour is not rejected
CellCheckNoR2(cell, direction, g) ==
  LET existing == getCell(g, cell.r, cell.c)
  IN IF existing # Undefined /\ existing # cell.letter THEN "R1" ELSE "ok"

\* CellCheck without rule 1: a letter conflict is not rejected
CellCheckNoR1(cell, direction, g) ==
  LET existing == getCell(g, cell.r, cell.c)
      isIntersection == existing # Undefined
      perpNeighbors ==
        IF direction = "horizontal"
        THEN <<getCell(g, cell.r - 1, cell.c), getCell(g, cell.r + 1, cell.c)>>
        ELSE <<getCell(g, cell.r, cell.c - 1), getCell(g, cell.r, cell.c + 1)>>
      hasAdjacentLetter == \E n \in 1..2 : perpNeighbors[n] # Undefined
  IN IF hasAdjacentLetter /\ ~isIntersection THEN "R2" ELSE "ok"

\* the outcome of one pass of validatePlacement's loop body: rule 1, then rule 2
CellCheck(cell, direction, g) ==
  LET existing == getCell(g, cell.r, cell.c)
      isIntersection == existing = cell.letter
      perpNeighbors ==
        IF direction = "horizontal"
        THEN <<getCell(g, cell.r - 1, cell.c), getCell(g, cell.r + 1, cell.c)>>
        ELSE <<getCell(g, cell.r, cell.c - 1), getCell(g, cell.r, cell.c + 1)>>
      hasAdjacentLetter == \E n \in 1..2 : perpNeighbors[n] # Undefined
  IN IF existing # Undefined /\ existing # cell.letter THEN "R1"
     ELSE IF hasAdjacentLetter /\ ~isIntersection THEN "R2"
     ELSE "ok"

\* intersectionCount after the loop has run over all cells
IntersectionCount(word, row, col, direction, g) ==
  LET cells == getWordCells(word, row, col, direction)
  IN Cardinality({i \in 1..Len(cells) : getCell(g, cells[i].r, cells[i].c) = cells[i].letter})

\* validatePlacement without rule 5: a word need not cross a placed word
validatePlacementNoR5(word, row, col, direction, g) ==
  LET cells == getWordCells(word, row, col, direction)
      failing == {i \in 1..Len(cells) : CellCheck(cells[i], direction, g) # "ok"}
      before == IF direction = "horizontal" THEN <<row, col - 1>> ELSE <<row - 1, col>>
      after == IF direction = "horizontal"
               THEN <<row, col + Len(word)>>
               ELSE <<row + Len(word), col>>
  IN IF failing # {}
     THEN LET i == CHOOSE j \in failing : \A k \in failing : j <= k
          IN [valid |-> FALSE, reason |-> CellCheck(cells[i], direction, g),
              at |-> <<cells[i].r, cells[i].c>>]
     ELSE IF getCell(g, before[1], before[2]) # Undefined
     THEN [valid |-> FALSE, reason |-> "R3", at |-> before]
     ELSE IF getCell(g, after[1], after[2]) # Undefined
     THEN [valid |-> FALSE, reason |-> "R4", at |-> after]
     ELSE [valid |-> TRUE, reason |-> "ok", at |-> <<row, col>>]

\* validatePlacement without rule 4: the cell after the word may be occupied
validatePlacementNoR4(word, row, col, direction, g) ==
  LET cells == getWordCells(word, row, col, direction)
      failing == {i \in 1..Len(cells) : CellCheck(cells[i], direction, g) # "ok"}
      before == IF direction = "horizontal" THEN <<row, col - 1>> ELSE <<row - 1, col>>
      after == IF direction = "horizontal"
               THEN <<row, col + Len(word)>>
               ELSE <<row + Len(word), col>>
  IN IF failing # {}
     THEN LET i == CHOOSE j \in failing : \A k \in failing : j <= k
          IN [valid |-> FALSE, reason |-> CellCheck(cells[i], direction, g),
              at |-> <<cells[i].r, cells[i].c>>]
     ELSE IF getCell(g, before[1], before[2]) # Undefined
     THEN [valid |-> FALSE, reason |-> "R3", at |-> before]
     ELSE IF Len(g.placedWords) > 0 /\ IntersectionCount(word, row, col, direction, g) = 0
     THEN [valid |-> FALSE, reason |-> "R5", at |-> <<row, col>>]
     ELSE [valid |-> TRUE, reason |-> "ok", at |-> <<row, col>>]

validatePlacement(word, row, col, direction, g) ==
  LET cells == getWordCells(word, row, col, direction)
      failing == {i \in 1..Len(cells) : CellCheck(cells[i], direction, g) # "ok"}
      before == IF direction = "horizontal" THEN <<row, col - 1>> ELSE <<row - 1, col>>
      after == IF direction = "horizontal"
               THEN <<row, col + Len(word)>>
               ELSE <<row + Len(word), col>>
  IN IF failing # {}
     THEN LET i == CHOOSE j \in failing : \A k \in failing : j <= k
          IN [valid |-> FALSE, reason |-> CellCheck(cells[i], direction, g),
              at |-> <<cells[i].r, cells[i].c>>]
     ELSE IF getCell(g, before[1], before[2]) # Undefined
     THEN [valid |-> FALSE, reason |-> "R3", at |-> before]
     ELSE IF getCell(g, after[1], after[2]) # Undefined
     THEN [valid |-> FALSE, reason |-> "R4", at |-> after]
     ELSE IF Len(g.placedWords) > 0 /\ IntersectionCount(word, row, col, direction, g) = 0
     THEN [valid |-> FALSE, reason |-> "R5", at |-> <<row, col>>]
     ELSE [valid |-> TRUE, reason |-> "ok", at |-> <<row, col>>]

RECURSIVE SetCells(_, _, _)
\* the loop `for (const {r, c, letter} of cells) setCell(newGrid, r, c, letter)`
SetCells(g, cells, i) ==
  IF i > Len(cells) THEN g
  ELSE SetCells(setCell(g, cells[i].r, cells[i].c, cells[i].letter), cells, i + 1)

\* placeWord on a placement the validator accepts (otherwise it throws)
placeWord(g, word, row, col, direction) ==
  LET newGrid == cloneGrid(g)
      filled == SetCells(newGrid, getWordCells(word, row, col, direction), 1)
  IN [filled EXCEPT !.placedWords =
        Append(@, [word |-> word, row |-> row, col |-> col, direction |-> direction])]

RECURSIVE BFS(_, _, _)
\* the while loop of isGridConnected: queue is a sequence of keys, visited a set
BFS(g, queue, visited) ==
  IF Len(queue) = 0 THEN visited
  ELSE LET key == Head(queue)
           rest == Tail(queue)
       IN IF key \in visited THEN BFS(g, rest, visited)
          ELSE LET visited2 == visited \cup {key}
                   p == ParseKey(key)
                   neighbors == <<CellKey(p.row - 1, p.col), CellKey(p.row + 1, p.col),
                                  CellKey(p.row, p.col - 1), CellKey(p.row, p.col + 1)>>
                   pushed == SelectSeq(neighbors,
                               LAMBDA n : HasCell(g, n) /\ n \notin visited2)
               IN BFS(g, rest \o pushed, visited2)

isGridConnected(g) ==
  IF Len(g.cells) = 0 THEN TRUE
  ELSE Cardinality(BFS(g, <<g.cells[1].key>>, {})) = Len(g.cells)

RECURSIVE ShiftCells(_, _, _, _, _)
\* the loop of normalizeGrid over Object.entries(grid.cells)
ShiftCells(normalized, cells, minRow, minCol, i) ==
  IF i > Len(cells) THEN normalized
  ELSE LET p == ParseKey(cells[i].key)
       IN ShiftCells(setCell(normalized, p.row - minRow, p.col - minCol, cells[i].letter),
                     cells, minRow, minCol, i + 1)

\* normalizeGrid that shifts the cells but leaves the placed words' columns
normalizeGridKeepCol(g) ==
  LET minRow == g.bounds.minRow
      minCol == g.bounds.minCol
      shifted == ShiftCells(createGrid, g.cells, minRow, minCol, 1)
  IN [shifted EXCEPT !.placedWords =
        [i \in 1..Len(g.placedWords) |->
           [word |-> g.placedWords[i].word,
            row |-> g.placedWords[i].row - minRow,
            col |-> g.placedWords[i].col,
            direction |-> g.placedWords[i].direction]]]

normalizeGrid(g) ==
  LET minRow == g.bounds.minRow
      minCol == g.bounds.minCol
      shifted == ShiftCells(createGrid, g.cells, minRow, minCol, 1)
  IN [shifted EXCEPT !.placedWords =
        [i \in 1..Len(g.placedWords) |->
           [word |-> g.placedWords[i].word,
            row |-> g.placedWords[i].row - minRow,
            col |-> g.placedWords[i].col - minCol,
            direction |-> g.placedWords[i].direction]]]

-----------------------------------------------------------------------------
(* intersectionGraph *)

\* the intersections of wordA with wordB, indexA in the outer loop, indexB in
\* the inner one; the indices are the source's, from 0
Intersections(wordA, wordB) ==
  LET pairs == [k \in 1..(Len(wordA) * Len(wordB)) |->
                  [indexA |-> (k - 1) \div Len(wordB), indexB |-> (k - 1) % Len(wordB)]]
      hits == SelectSeq(pairs, LAMBDA q : wordA[q.indexA + 1] = wordB[q.indexB + 1])
  IN [k \in 1..Len(hits) |->
        [wordA |-> wordA, indexA |-> hits[k].indexA,
         wordB |-> wordB, indexB |-> hits[k].indexB,
         letter |-> wordA[hits[k].indexA + 1]]]

\* the Map of Maps: graph[wordA][wordB] is set for the words at two different
\* indices of the list that have an intersection
buildIntersectionGraph(words) ==
  [wordA \in {words[i] : i \in 1..Len(words)} |->
     [wordB \in {w \in {words[i] : i \in 1..Len(words)} :
                   /\ \E i, j \in 1..Len(words) : i # j /\ words[i] = wordA /\ words[j] = w
                   /\ Intersections(wordA, w) # << >>} |->
        Intersections(wordA, wordB)]]

\* graph.get(wordA)?.get(wordB) || []
getIntersections(graph, wordA, wordB) ==
  IF wordA \in DOMAIN graph /\ wordB \in DOMAIN graph[wordA]
  THEN graph[wordA][wordB]
  ELSE << >>

RECURSIVE SumLengths(_, _)
SumLengths(f, keys) ==
  IF keys = {} THEN 0
  ELSE LET k == CHOOSE x \in keys : TRUE
       IN Len(f[k]) + SumLengths(f, keys \ {k})

countWordConnections(graph, word) ==
  IF word \notin DOMAIN graph THEN 0
  ELSE SumLengths(graph[word], DOMAIN graph[word])

-----------------------------------------------------------------------------
(* Numbers.  A score is the exact rational n/d with d > 0 of the source's  *)
(* floating-point expression.                                              *)

RECURSIVE Gcd(_, _)
Gcd(a, b) == IF b = 0 THEN a ELSE Gcd(b, a % b)

Abs(a) == IF a < 0 THEN 0 - a ELSE a

\* n/d in lowest terms
Rat(n, d) ==
  LET k == Gcd(Abs(n), d)
  IN [n |-> n \div k, d |-> d \div k]

RatAdd(x, y) == Rat(x.n * y.d + y.n * x.d, x.d * y.d)

RatMul(x, y) == Rat(x.n * y.n, x.d * y.d)

\* the sign of x - y
RatCompare(x, y) ==
  LET l == x.n * y.d
      r == y.n * x.d
  IN IF l < r THEN 0 - 1 ELSE IF l > r THEN 1 ELSE 0

RatEq(x, y) == RatCompare(x, y) = 0

RatLeq(x, y) == RatCompare(x, y) <= 0

-----------------------------------------------------------------------------
(* wordFinder *)

\* String.prototype.toUpperCase on one character
ToUpperChar(ch) ==
  CASE ch = "a" -> "A"
    [] ch = "c" -> "C"
    [] ch = "o" -> "O"
    [] ch = "s" -> "S"
    [] ch = "t" -> "T"
    [] ch = "x" -> "X"
    [] OTHER -> ch

toUpperCase(word) == [i \in 1..Len(word) |-> ToUpperChar(word[i])]

\* the alphabet in the order localeCompare ranks upper-case letters
AlphabetOrder == <<"A", "C", "O", "S", "T", "X">>

LetterRank(ch) == CHOOSE i \in 1..Len(AlphabetOrder) : AlphabetOrder[i] = ch

\* a.localeCompare(b) on upper-case words: negative, zero or positive
localeCompare(a, b) ==
  LET n == Min(Len(a), Len(b))
      diff == {i \in 1..n : a[i] # b[i]}
  IN IF diff = {}
     THEN Len(a) - Len(b)
     ELSE LET i == CHOOSE j \in diff : \A k \in diff : j <= k
          IN LetterRank(a[i]) - LetterRank(b[i])

\* countLetters: the Map letter -> count, as a function on the letters counted
countLetters(ls) ==
  [u \in {ToUpperChar(ls[i]) : i \in 1..Len(ls)} |->
     Cardinality({i \in 1..Len(ls) : ToUpperChar(ls[i]) = u})]

\* availableLetters.get(letter) || 0
GetCount(counts, letter) == IF letter \in DOMAIN counts THEN counts[letter] ELSE 0

\* canFormWord that asks only that each letter of the word occurs in the bag
canFormWordAnyCount(word, availableLetters) ==
  \A letter \in {ToUpperChar(word[i]) : i \in 1..Len(word)} :
    GetCount(availableLetters, letter) >= 1

canFormWordAlways(word, availableLetters) == TRUE

canFormWord(word, availableLetters) ==
  LET needed == countLetters(toUpperCase(word))
  IN \A letter \in DOMAIN needed : ~(GetCount(availableLetters, letter) < needed[letter])

\* the comparator of findValidWords' sort, without the alphabetical tie-break
CompareLengthOnly(a, b) == Len(b) - Len(a)

\* the comparator of findValidWords' sort
CompareValidWords(a, b) ==
  IF Len(b) # Len(a) THEN Len(b) - Len(a) ELSE localeCompare(a, b)

\* (a, b) => b.length - a.length
CompareLengthDesc(a, b) == Len(b) - Len(a)

\* the comparator of selectWords for mostConnectedFirst
CompareConnectionsThenLength(graph, a, b) ==
  LET connectionsA == countWordConnections(graph, a)
      connectionsB == countWordConnections(graph, b)
  IN IF connectionsB # connectionsA THEN connectionsB - connectionsA ELSE Len(b) - Len(a)

\* the comparator of orderWords for mostConnectedFirst
CompareConnections(graph, a, b) ==
  countWordConnections(graph, b) - countWordConnections(graph, a)

\* (a, b) => b.score - a.score, as a sign
CompareScoreDesc(a, b) == RatCompare(b.score, a.score)

\* the comparator of an ascending sort by overallScore
CompareOverallScoreAsc(a, b) == RatCompare(a.metrics.overallScore, b.metrics.overallScore)

\* (a, b) => b.metrics.overallScore - a.metrics.overallScore, as a sign
CompareOverallScoreDesc(a, b) == RatCompare(b.metrics.overallScore, a.metrics.overallScore)

\* Array.prototype.sort() without a comparator on one-character strings, all
\* upper case: the order of the UTF-16 code units
CompareCodeUnit(a, b) == LetterRank(a) - LetterRank(b)

\* charCodeAt(0) of the characters that occur in the strings hashGrid builds
CharCode(ch) ==
  CASE ch = "0" -> 48 [] ch = "1" -> 49 [] ch = "2" -> 50 [] ch = "3" -> 51
    [] ch = "4" -> 52 [] ch = "5" -> 53 [] ch = "6" -> 54 [] ch = "7" -> 55
    [] ch = "8" -> 56 [] ch = "9" -> 57 [] ch = "," -> 44 [] ch = "-" -> 45
    [] ch = ":" -> 58 [] ch = "|" -> 124
    [] ch = "A" -> 65 [] ch = "C" -> 67 [] ch = "O" -> 79 [] ch = "S" -> 83
    [] ch = "T" -> 84 [] ch = "X" -> 88

\* Array.prototype.sort() without a comparator on strings (sequences of
\* characters): the lexicographic order of the UTF-16 code units
CompareStrings(a, b) ==
  LET n == Min(Len(a), Len(b))
      diff == {i \in 1..n : a[i] # b[i]}
  IN IF diff = {}
     THEN Len(a) - Len(b)
     ELSE LET i == CHOOSE j \in diff : \A k \in diff : j <= k
          IN CharCode(a[i]) - CharCode(b[i])

\* (a, b) => b.score - a.score on curated puzzles
CompareCombinedScoreDesc(a, b) == RatCompare(b.score, a.score)

\* (a, b) => scoreB - scoreA on the words of one length, scores[w] = the fun
\* score of w or 0
CompareFunScoreDesc(scores, a, b) == RatCompare(scores[b], scores[a])

\* the comparators handed to Array.prototype.sort, by name
Compare(cmp, a, b) ==
  CASE cmp.name = "validWords" -> CompareValidWords(a, b)
    [] cmp.name = "lengthDesc" -> CompareLengthDesc(a, b)
    [] cmp.name = "connectionsThenLength" -> CompareConnectionsThenLength(cmp.graph, a, b)
    [] cmp.name = "connections" -> CompareConnections(cmp.graph, a, b)
    [] cmp.name = "scoreDesc" -> CompareScoreDesc(a, b)
    [] cmp.name = "overallScoreDesc" -> CompareOverallScoreDesc(a, b)
    [] cmp.name = "codeUnit" -> CompareCodeUnit(a, b)
    [] cmp.name = "strings" -> CompareStrings(a, b)
    [] cmp.name = "combinedScoreDesc" -> CompareCombinedScoreDesc(a, b)
    [] cmp.name = "funScoreDesc" -> CompareFunScoreDesc(cmp.scores, a, b)

RECURSIVE InsertSorted(_, _, _)
\* x put into the sorted sequence after every element not greater than it
InsertSorted(sorted, x, cmp) ==
  IF sorted = << >> THEN <<x>>
  ELSE IF Compare(cmp, sorted[Len(sorted)], x) <= 0 THEN Append(sorted, x)
  ELSE Append(InsertSorted(SubSeq(sorted, 1, Len(sorted) - 1), x, cmp), sorted[Len(sorted)])

RECURSIVE SortPrefix(_, _, _)
SortPrefix(arr, n, cmp) ==
  IF n = 0 THEN << >> ELSE InsertSorted(SortPrefix(arr, n - 1, cmp), arr[n], cmp)

\* Array.prototype.sort(cmp): a stable sort
StableSort(arr, cmp) == SortPrefix(arr, Len(arr), cmp)

RECURSIVE ScanDictionary(_, _, _, _, _)
\* the loop of findValidWords over the dictionary, from entry i on
ScanDictionary(dict, i, letterCounts, params, found) ==
  IF i > Len(dict) THEN found
  ELSE LET word == dict[i]
       IN IF Len(word) < params.minLength \/ Len(word) > params.maxLength
          THEN ScanDictionary(dict, i + 1, letterCounts, params, found)
          ELSE IF canFormWord(word, letterCounts)
          THEN ScanDictionary(dict, i + 1, letterCounts, params,
                              Append(found, toUpperCase(word)))
          ELSE ScanDictionary(dict, i + 1, letterCounts, params, found)

findValidWords(ls, dict, params) ==
  StableSort(ScanDictionary(dict, 1, countLetters(ls), params, << >>), [name |-> "validWords"])

-----------------------------------------------------------------------------
(* gridScorer *)

\* scorePlacementCandidate: aspectRatio * 100 - expansionPenalty + intersections * 10
scorePlacementCandidate(word, row, col, direction, g, intersections) ==
  IF Len(g.cells) = 0 THEN Rat(100, 1)
  ELSE LET currentWidth == g.bounds.maxCol - g.bounds.minCol + 1
           currentHeight == g.bounds.maxRow - g.bounds.minRow + 1
           newMinRow == Min(g.bounds.minRow, row)
           newMaxRow == IF direction = "horizontal"
                        THEN Max(g.bounds.maxRow, row)
                        ELSE Max(g.bounds.maxRow, row + Len(word) - 1)
           newMinCol == Min(g.bounds.minCol, col)
           newMaxCol == IF direction = "horizontal"
                        THEN Max(g.bounds.maxCol, col + Len(word) - 1)
                        ELSE Max(g.bounds.maxCol, col)
           newWidth == newMaxCol - newMinCol + 1
           newHeight == newMaxRow - newMinRow + 1
           newArea == newWidth * newHeight
           expansionPenalty == newArea - (currentWidth * currentHeight)
           aspectRatio == Rat(Min(newWidth, newHeight), Max(newWidth, newHeight))
       IN RatAdd(RatMul(aspectRatio, Rat(100, 1)),
                 Rat(intersections * 10 - expansionPenalty, 1))

calculateCompactness(g) ==
  IF Len(g.cells) = 0 THEN Rat(0, 1)
  ELSE LET width == g.bounds.maxCol - g.bounds.minCol + 1
           height == g.bounds.maxRow - g.bounds.minRow + 1
           area == width * height
           filledCells == Len(g.cells)
           aspectRatio == Rat(Min(width, height), Max(width, height))
           fillRatio == Rat(filledCells, area)
       IN RatAdd(RatMul(aspectRatio, Rat(1, 2)), RatMul(fillRatio, Rat(1, 2)))

calculateDensity(g) ==
  IF Len(g.cells) = 0 THEN Rat(0, 1)
  ELSE LET width == g.bounds.maxCol - g.bounds.minCol + 1
           height == g.bounds.maxRow - g.bounds.minRow + 1
       IN Rat(Len(g.cells), width * height)

\* the key of the k-th cell of placed word pw
WordCellKey(pw, k) ==
  LET cell == getWordCells(pw.word, pw.row, pw.col, pw.direction)[k]
  IN CellKey(cell.r, cell.c)

\* cellUsage: for each key a placed word covers, the number of (word, offset)
\* pairs that land on it
cellUsage(g) ==
  LET slots == UNION {{<<i, k>> : k \in 1..Len(g.placedWords[i].word)} :
                        i \in 1..Len(g.placedWords)}
  IN [key \in {WordCellKey(g.placedWords[sl[1]], sl[2]) : sl \in slots} |->
        Cardinality({sl \in slots : WordCellKey(g.placedWords[sl[1]], sl[2]) = key})]

\* Array.from(cellUsage.values()).filter(v => v > 1).length
CrossingCount(g) ==
  LET usage == cellUsage(g)
  IN Cardinality({key \in DOMAIN usage : usage[key] > 1})

\* the ratio intersections / maxPossible without the cap at 1
calculateIntersectionScoreUncapped(g) ==
  IF Len(g.placedWords) <= 1 THEN Rat(1, 1)
  ELSE Rat(CrossingCount(g), Len(g.placedWords) - 1)

calculateIntersectionScore(g) ==
  IF Len(g.placedWords) <= 1 THEN Rat(1, 1)
  ELSE LET intersections == CrossingCount(g)
           maxPossible == Len(g.placedWords) - 1
       IN IF maxPossible > 0
          THEN (IF intersections >= maxPossible THEN Rat(1, 1)
                ELSE Rat(intersections, maxPossible))
          ELSE Rat(1, 1)

\* calculateSymmetry.  centerRow = minRow + height / 2, so 2 * centerRow - row
\* is the integer 2 * minRow + height - row and Math.round leaves it as it is.
calculateSymmetry(g) ==
  IF Len(g.cells) = 0 THEN Rat(0, 1)
  ELSE LET width == g.bounds.maxCol - g.bounds.minCol + 1
           height == g.bounds.maxRow - g.bounds.minRow + 1
           twiceCenterRow == 2 * g.bounds.minRow + height
           twiceCenterCol == 2 * g.bounds.minCol + width
           symmetryScore ==
             Cardinality({i \in 1..Len(g.cells) :
                LET q == ParseKey(g.cells[i].key)
                    mirrorKey == CellKey(twiceCenterRow - q.row, twiceCenterCol - q.col)
                IN HasCell(g, mirrorKey)})
           totalCells == Len(g.cells)
       IN IF totalCells > 0 THEN Rat(symmetryScore, totalCells) ELSE Rat(0, 1)

scoreGrid(g, weights) ==
  RatAdd(RatAdd(RatMul(calculateCompactness(g), weights.compactness),
                RatMul(calculateDensity(g), weights.density)),
         RatAdd(RatMul(calculateIntersectionScore(g), weights.intersections),
                RatMul(calculateSymmetry(g), weights.symmetry)))

calculateMetrics(g) ==
  LET width == g.bounds.maxCol - g.bounds.minCol + 1
      height == g.bounds.maxRow - g.bounds.minRow + 1
      filledCells == Len(g.cells)
      totalCells == width * height
  IN [gridWidth |-> width,
      gridHeight |-> height,
      totalCells |-> totalCells,
      filledCells |-> filledCells,
      density |-> IF totalCells > 0 THEN Rat(filledCells, totalCells) ELSE Rat(0, 1),
      intersectionCount |-> CrossingCount(g),
      overallScore |-> Rat(0, 1)]

-----------------------------------------------------------------------------
(* generator *)

\* seededRandom(seed) = frac(sin(seed) * 10000), given as floor(10000 * value)
\* for the seeds the attempts use (seed + i and seed * 100 + i)
SeededRandomTable ==
  [seed \in (0..30) \cup {a * 100 + i : a \in 1..19, i \in 0..7} |->
     CASE seed = 0 -> 0 [] seed = 1 -> 7098 [] seed = 2 -> 9742 [] seed = 3 -> 2000
       [] seed = 4 -> 9750 [] seed = 5 -> 7572 [] seed = 6 -> 8450 [] seed = 7 -> 8659
       [] seed = 8 -> 5824 [] seed = 9 -> 1848 [] seed = 10 -> 7888 [] seed = 11 -> 979
       [] seed = 12 -> 2708 [] seed = 13 -> 6703 [] seed = 14 -> 735 [] seed = 15 -> 8784
       [] seed = 16 -> 9668 [] seed = 17 -> 250 [] seed = 18 -> 1275 [] seed = 19 -> 7720
       [] seed = 20 -> 4525 [] seed = 21 -> 5563 [] seed = 22 -> 4869 [] seed = 23 -> 7959
       [] seed = 24 -> 2163 [] seed = 25 -> 4824 [] seed = 26 -> 5845 [] seed = 27 -> 7592
       [] seed = 28 -> 578 [] seed = 29 -> 6611 [] seed = 30 -> 6837 [] seed = 100 -> 3435
       [] seed = 101 -> 2578 [] seed = 102 -> 2679 [] seed = 103 -> 8863 [] seed = 104 -> 7759
       [] seed = 105 -> 6471 [] seed = 106 -> 5749 [] seed = 107 -> 8174 [] seed = 200 -> 270
       [] seed = 201 -> 974 [] seed = 202 -> 1840 [] seed = 203 -> 970 [] seed = 204 -> 2035
       [] seed = 205 -> 249 [] seed = 206 -> 5809 [] seed = 207 -> 9497 [] seed = 300 -> 4416
       [] seed = 301 -> 3595 [] seed = 302 -> 5283 [] seed = 303 -> 3250 [] seed = 304 -> 680
       [] seed = 305 -> 9605 [] seed = 306 -> 3828 [] seed = 307 -> 6463 [] seed = 400 -> 8064
       [] seed = 401 -> 2468 [] seed = 402 -> 5679 [] seed = 403 -> 7395 [] seed = 404 -> 4359
       [] seed = 405 -> 4576 [] seed = 406 -> 4845 [] seed = 407 -> 7732 [] seed = 500 -> 2819
       [] seed = 501 -> 2829 [] seed = 502 -> 7988 [] seed = 503 -> 6176 [] seed = 504 -> 5539
       [] seed = 505 -> 5535 [] seed = 506 -> 2059 [] seed = 507 -> 6865 [] seed = 600 -> 8244
       [] seed = 601 -> 2260 [] seed = 602 -> 413 [] seed = 603 -> 7750 [] seed = 604 -> 8388
       [] seed = 605 -> 2075 [] seed = 606 -> 6531 [] seed = 607 -> 6421 [] seed = 700 -> 7052
       [] seed = 701 -> 2658 [] seed = 702 -> 3298 [] seed = 703 -> 5885 [] seed = 704 -> 7338
       [] seed = 705 -> 4137 [] seed = 706 -> 6308 [] seed = 707 -> 2030 [] seed = 800 -> 6964
       [] seed = 801 -> 2756 [] seed = 802 -> 9616 [] seed = 803 -> 3699 [] seed = 804 -> 646
       [] seed = 805 -> 573 [] seed = 806 -> 7686 [] seed = 807 -> 5196 [] seed = 900 -> 327
       [] seed = 901 -> 6008 [] seed = 902 -> 527 [] seed = 903 -> 3098 [] seed = 904 -> 5658
       [] seed = 905 -> 1348 [] seed = 906 -> 5070 [] seed = 907 -> 6933 [] seed = 1000 -> 7954
       [] seed = 1001 -> 9059 [] seed = 1002 -> 6654 [] seed = 1003 -> 5839 [] seed = 1004 -> 557
       [] seed = 1005 -> 7550 [] seed = 1006 -> 773 [] seed = 1007 -> 6186 [] seed = 1100 -> 6439
       [] seed = 1101 -> 9042 [] seed = 1102 -> 6891 [] seed = 1103 -> 4505 [] seed = 1104 -> 8050
       [] seed = 1105 -> 4715 [] seed = 1106 -> 1195 [] seed = 1107 -> 5771 [] seed = 1200 -> 2139
       [] seed = 1201 -> 8859 [] seed = 1202 -> 8423 [] seed = 1203 -> 6420 [] seed = 1204 -> 5494
       [] seed = 1205 -> 7823 [] seed = 1206 -> 1289 [] seed = 1207 -> 6816 [] seed = 1300 -> 8699
       [] seed = 1301 -> 1605 [] seed = 1302 -> 7496 [] seed = 1303 -> 1062 [] seed = 1304 -> 2145
       [] seed = 1305 -> 2538 [] seed = 1306 -> 9431 [] seed = 1307 -> 191 [] seed = 1400 -> 396
       [] seed = 1401 -> 4200 [] seed = 1402 -> 6686 [] seed = 1403 -> 6430 [] seed = 1404 -> 8784
       [] seed = 1405 -> 2056 [] seed = 1406 -> 913 [] seed = 1407 -> 4238 [] seed = 1500 -> 9804
       [] seed = 1501 -> 566 [] seed = 1502 -> 4328 [] seed = 1503 -> 9454 [] seed = 1504 -> 831
       [] seed = 1505 -> 568 [] seed = 1506 -> 9529 [] seed = 1507 -> 5086 [] seed = 1600 -> 7520
       [] seed = 1601 -> 9090 [] seed = 1602 -> 3680 [] seed = 1603 -> 6547 [] seed = 1604 -> 5843
       [] seed = 1605 -> 807 [] seed = 1606 -> 7978 [] seed = 1607 -> 3804 [] seed = 1700 -> 7944
       [] seed = 1701 -> 2786 [] seed = 1702 -> 3901 [] seed = 1703 -> 6914 [] seed = 1704 -> 121
       [] seed = 1705 -> 9521 [] seed = 1706 -> 6546 [] seed = 1707 -> 599 [] seed = 1800 -> 235
       [] seed = 1801 -> 4405 [] seed = 1802 -> 6811 [] seed = 1803 -> 3930 [] seed = 1804 -> 4662
       [] seed = 1805 -> 836 [] seed = 1806 -> 9976 [] seed = 1807 -> 4758 [] seed = 1900 -> 2172
       [] seed = 1901 -> 6689 [] seed = 1902 -> 3492 [] seed = 1903 -> 6673 [] seed = 1904 -> 2126
       [] seed = 1905 -> 6129 [] seed = 1906 -> 1532 [] seed = 1907 -> 6590]

\* seededRandom(seed), times 10000 and floored
seededRandom(seed) == SeededRandomTable[seed]

\* the array with the elements at indices i and j (from 0) exchanged
Swap(arr, i, j) ==
  [k \in 1..Len(arr) |-> IF k = i + 1 THEN arr[j + 1] ELSE IF k = j + 1 THEN arr[i + 1] ELSE arr[k]]

RECURSIVE FisherYates(_, _, _)
\* the loop `for (i = ordered.length - 1; i > 0; i--)` of orderWords, from i on
FisherYates(ordered, seed, i) ==
  IF ~(i > 0) THEN ordered
  ELSE LET j == (seededRandom(seed + i) * (i + 1)) \div 10000
       IN FisherYates(Swap(ordered, i, j), seed, i - 1)

RECURSIVE SwapAdjacent(_, _, _)
\* the loop `for (i = 0; i < ordered.length - 1; i++)` of orderWords, from i on
SwapAdjacent(ordered, seed, i) ==
  IF ~(i < Len(ordered) - 1) THEN ordered
  ELSE IF seededRandom(seed * 100 + i) >= 7000
  THEN SwapAdjacent(Swap(ordered, i, i + 1), seed, i + 1)
  ELSE SwapAdjacent(ordered, seed, i + 1)

orderWords(words, graph, strategy, seed) ==
  LET ordered ==
        CASE strategy = "longestFirst" -> StableSort(words, [name |-> "lengthDesc"])
          [] strategy = "random" -> FisherYates(words, seed, Len(words) - 1)
          [] strategy = "mostConnectedFirst" ->
               StableSort(words, [name |-> "connections", graph |-> graph])
          [] OTHER -> words
  IN IF seed > 0 /\ strategy # "random"
     THEN SwapAdjacent(ordered, seed, 0)
     ELSE ordered

selectWords(words, graph, cfg) ==
  LET selected ==
        IF cfg.placementStrategy = "mostConnectedFirst"
        THEN StableSort(words, [name |-> "connectionsThenLength", graph |-> graph])
        ELSE StableSort(words, [name |-> "lengthDesc"])
      targetCount == Min(cfg.maxWordCount, Len(selected))
  IN SubSeq(selected, 1, targetCount)

RECURSIVE ScanPlacements(_, _, _, _, _, _)
\* the nested loops of findValidPlacements: placed word p, its intersection k
ScanPlacements(word, g, graph, p, k, candidates) ==
  IF p > Len(g.placedWords) THEN candidates
  ELSE LET placedWord == g.placedWords[p]
           intersections == getIntersections(graph, word, placedWord.word)
       IN IF k > Len(intersections)
          THEN ScanPlacements(word, g, graph, p + 1, 1, candidates)
          ELSE LET intersection == intersections[k]
                   newDirection == IF placedWord.direction = "horizontal"
                                   THEN "vertical" ELSE "horizontal"
                   newCol == IF placedWord.direction = "horizontal"
                             THEN placedWord.col + intersection.indexB
                             ELSE placedWord.col - intersection.indexA
                   newRow == IF placedWord.direction = "horizontal"
                             THEN placedWord.row - intersection.indexA
                             ELSE placedWord.row + intersection.indexB
                   validation == validatePlacement(word, newRow, newCol, newDirection, g)
                   isDuplicate == \E c \in 1..Len(candidates) :
                                    /\ candidates[c].row = newRow
                                    /\ candidates[c].col = newCol
                                    /\ candidates[c].direction = newDirection
               IN IF validation.valid /\ ~isDuplicate
                  THEN ScanPlacements(word, g, graph, p, k + 1,
                         Append(candidates,
                                [word |-> word, row |-> newRow, col |-> newCol,
                                 direction |-> newDirection, intersections |-> 1,
                                 score |-> Rat(0, 1)]))
                  ELSE ScanPlacements(word, g, graph, p, k + 1, candidates)

findValidPlacements(word, g, graph) ==
  IF Len(g.placedWords) = 0
  THEN <<[word |-> word, row |-> 0, col |-> 0, direction |-> "horizontal",
          intersections |-> 0, score |-> Rat(0, 1)],
         [word |-> word, row |-> 0, col |-> 0, direction |-> "vertical",
          intersections |-> 0, score |-> Rat(0, 1)]>>
  ELSE ScanPlacements(word, g, graph, 1, 1, << >>)

\* candidates.map(c => ({ ...c, score: scorePlacementCandidate(...) }))
ScoreCandidates(candidates, g) ==
  [k \in 1..Len(candidates) |->
     [candidates[k] EXCEPT !.score =
        scorePlacementCandidate(candidates[k].word, candidates[k].row,
                                candidates[k].col, candidates[k].direction,
                                g, candidates[k].intersections)]]

RECURSIVE placeWordsRecursively(_, _, _, _, _)
RECURSIVE TryCandidates(_, _, _, _, _, _, _)
RECURSIVE TryCandidatesPartial(_, _, _, _, _, _, _)

\* the loop of placeWordsRecursively returning the grid it was given, instead
\* of null, when no candidate leads to a full layout
TryCandidatesPartial(words, index, g, graph, cfg, toTry, k) ==
  IF k > Len(toTry) THEN g
  ELSE LET candidate == toTry[k]
       IN IF ~validatePlacement(candidate.word, candidate.row, candidate.col,
                                candidate.direction, g).valid
          THEN TryCandidatesPartial(words, index, g, graph, cfg, toTry, k + 1)
          ELSE placeWordsRecursively(words, index + 1,
                 placeWord(g, candidate.word, candidate.row, candidate.col,
                           candidate.direction), graph, cfg)

\* the loop `for (const candidate of toTry)` of placeWordsRecursively, from k on
TryCandidates(words, index, g, graph, cfg, toTry, k) ==
  IF k > Len(toTry) THEN NoGrid
  ELSE LET candidate == toTry[k]
       IN IF ~validatePlacement(candidate.word, candidate.row, candidate.col,
                                candidate.direction, g).valid
          THEN TryCandidates(words, index, g, graph, cfg, toTry, k + 1)
          ELSE LET newGrid == placeWord(g, candidate.word, candidate.row, candidate.col,
                                        candidate.direction)
                   placed == placeWordsRecursively(words, index + 1, newGrid, graph, cfg)
               IN IF placed # NoGrid THEN placed
                  ELSE TryCandidates(words, index, g, graph, cfg, toTry, k + 1)

\* index counts from 0
placeWordsRecursively(words, index, g, graph, cfg) ==
  IF index >= Len(words) THEN g
  ELSE LET word == words[index + 1]
           candidates == findValidPlacements(word, g, graph)
           scoredCandidates == ScoreCandidates(candidates, g)
           sorted == StableSort(scoredCandidates, [name |-> "scoreDesc"])
           toTry == SubSeq(sorted, 1, Min(cfg.maxPlacementCandidates, Len(sorted)))
       IN TryCandidates(words, index, g, graph, cfg, toTry, 1)

tryGenerateGrid(words, graph, cfg, seed) ==
  LET orderedWords == orderWords(words, graph, cfg.placementStrategy, seed)
  IN placeWordsRecursively(orderedWords, 0, createGrid, graph, cfg)

DEFAULT_PARAMS ==
  [minWordLength |-> 3,
   maxWordLength |-> 10,
   minWordCount |-> 4,
   maxWordCount |-> 8,
   mustIncludeLongestWord |-> TRUE,
   placementStrategy |-> "longestFirst",
   maxPlacementCandidates |-> 10,
   maxBacktrackDepth |-> 5,
   compactnessWeight |-> Rat(2, 5),
   densityWeight |-> Rat(1, 5),
   intersectionWeight |-> Rat(3, 10),
   symmetryWeight |-> Rat(1, 10),
   candidatesToGenerate |-> 10]

\* { ...DEFAULT_PARAMS, ...params }
MergeParams(params) ==
  [f \in DOMAIN DEFAULT_PARAMS |-> IF f \in DOMAIN params THEN params[f] ELSE DEFAULT_PARAMS[f]]

\* a candidate whose bonusWords are all the valid words, placed ones included
ScoredCandidateAllBonus(g, ls, valid, cfg, id) ==
  LET normalizedGrid == normalizeGrid(g)
      metrics == [calculateMetrics(normalizedGrid) EXCEPT !.overallScore =
                    scoreGrid(normalizedGrid,
                              [compactness |-> cfg.compactnessWeight,
                               density |-> cfg.densityWeight,
                               intersections |-> cfg.intersectionWeight,
                               symmetry |-> cfg.symmetryWeight])]
  IN [puzzle |-> [id |-> id, letters |-> toUpperCase(ls),
                  words |-> normalizedGrid.placedWords,
                  bonusWords |-> valid, grid |-> normalizedGrid],
      metrics |-> metrics]

\* the element of `scored` that generatePuzzle's map builds from one grid
ScoredCandidate(g, ls, valid, cfg, id) ==
  LET normalizedGrid == normalizeGrid(g)
      score == scoreGrid(normalizedGrid,
                         [compactness |-> cfg.compactnessWeight,
                          density |-> cfg.densityWeight,
                          intersections |-> cfg.intersectionWeight,
                          symmetry |-> cfg.symmetryWeight])
      metrics == [calculateMetrics(normalizedGrid) EXCEPT !.overallScore = score]
      puzzle == [id |-> id,
                 letters |-> toUpperCase(ls),
                 words |-> normalizedGrid.placedWords,
                 bonusWords |->
                   SelectSeq(valid,
                     LAMBDA w : ~\E k \in 1..Len(normalizedGrid.placedWords) :
                                   normalizedGrid.placedWords[k].word = w),
                 grid |-> normalizedGrid]
  IN [puzzle |-> puzzle, metrics |-> metrics]

-----------------------------------------------------------------------------
(* The grid as an object under a sequence of gridPlacer calls.             *)
(* grid: the current grid; prev: the grid the last call was given;        *)
(* op: the last call.                                                      *)

\* no GeneratorResult yet
NoResult == [pending |-> TRUE]

\* no module of the curation hook loaded
NoHook ==
  /\ wordsArray = << >>
  /\ deduplicationResult = NoResult
  /\ generation = NoResult

NoCall ==
  /\ letters = << >>
  /\ dictionary = << >>
  /\ config = "none"
  /\ validWords = << >>
  /\ pc = "grid"
  /\ selectedWords = << >>
  /\ attempt = 0
  /\ results = << >>
  /\ result = NoResult
  /\ calls = << >>
  /\ NoHook

Init ==
  /\ grid = createGrid
  /\ prev = createGrid
  /\ op = "createGrid"
  /\ NoCall

\* placeWord(grid, w, r, c, d) where validatePlacement accepts
PlaceWord ==
  \E w \in Words, r \in Coord, c \in Coord, d \in Direction :
    /\ Len(grid.placedWords) < MaxPlaced
    /\ validatePlacement(w, r, c, d, grid).valid
    /\ grid' = placeWord(grid, w, r, c, d)
    /\ prev' = grid
    /\ op' = "placeWord"
    /\ UNCHANGED callVars

\* placeWord(grid, w, r, c, d) where validatePlacement rejects: it throws
PlaceWordThrows ==
  \E w \in Words, r \in Coord, c \in Coord, d \in Direction :
    /\ ~validatePlacement(w, r, c, d, grid).valid
    /\ grid' = grid
    /\ prev' = grid
    /\ op' = "placeWordError"
    /\ UNCHANGED callVars

NormalizeGrid ==
  /\ grid' = normalizeGrid(grid)
  /\ prev' = grid
  /\ op' = "normalizeGrid"
  /\ UNCHANGED callVars

CloneGrid ==
  /\ grid' = cloneGrid(grid)
  /\ prev' = grid
  /\ op' = "cloneGrid"
  /\ UNCHANGED callVars

Next == PlaceWord \/ NormalizeGrid \/ CloneGrid

Spec == Init /\ [][Next]_vars

\* setCell(grid, r, c, letter) called directly
SetCell ==
  \E r \in Coord, c \in Coord, letter \in CellLetters :
    /\ Len(grid.cells) < MaxCells
    /\ grid' = setCell(grid, r, c, letter)
    /\ prev' = grid
    /\ op' = "setCell"
    /\ UNCHANGED callVars

\* placeWord(grid, w, r, c, d) on a grid that setCell built
PlaceWordOnCells ==
  \E w \in Words, r \in Coord, c \in Coord, d \in Direction :
    /\ Len(grid.cells) < MaxCells
    /\ validatePlacement(w, r, c, d, grid).valid
    /\ grid' = placeWord(grid, w, r, c, d)
    /\ prev' = grid
    /\ op' = "placeWord"
    /\ UNCHANGED callVars

NextCells == SetCell \/ PlaceWordOnCells \/ NormalizeGrid \/ CloneGrid

SpecCells == Init /\ [][NextCells]_vars

-----------------------------------------------------------------------------
(* validatePlacement and placeWord called on a grid with any word, anchor    *)
(* and direction.  grid is the caller's grid object as the call leaves it,   *)
(* prev the grid as it was given, result what the call returned or threw.    *)

\* the parts of the grid cloneGrid returns that are the very objects of the
\* grid it was given, so that a write to one shows in the other
cloneGridSharedBounds == {"bounds"}

\* cloneGrid spreads cells, placedWords (and each placed word) and bounds into
\* new objects: the clone shares no part with the grid it was given
cloneGridShared == {}

\* placeWord as a call: what it throws or returns, and the grid it was given
\* as the writes to newGrid leave it
placeWordCall(g, word, row, col, direction) ==
  LET validation == validatePlacement(word, row, col, direction, g)
  IN IF ~validation.valid
     THEN [threw |-> TRUE,
           error |-> <<"Invalid placement: ", validation.reason, validation.at>>,
           given |-> g]
     ELSE LET newGrid == placeWord(g, word, row, col, direction)
          IN [threw |-> FALSE,
              returned |-> newGrid,
              given |-> [part \in {"cells", "placedWords", "bounds"} |->
                           IF part \in cloneGridShared THEN newGrid[part] ELSE g[part]]]

Probed == op \in {"validatePlacement", "placeWordCall", "findValidPlacements"}

\* the caller places a word and goes on with the grid placeWord returned
PlaceProbedWord ==
  /\ ~Probed
  /\ Len(grid.placedWords) < MaxProbed
  /\ PlaceWord

ValidatePlacement ==
  \E w \in Words, r \in Coord, c \in Coord, d \in Direction :
    /\ ~Probed
    /\ result' = [word |-> w, row |-> r, col |-> c, direction |-> d,
                  validation |-> validatePlacement(w, r, c, d, grid)]
    /\ grid' = grid
    /\ prev' = grid
    /\ op' = "validatePlacement"
    /\ UNCHANGED <<calls, hookVars, letters, dictionary, config, validWords, pc, selectedWords,
                   attempt, results>>

PlaceWordCall ==
  \E w \in Words, r \in Coord, c \in Coord, d \in Direction :
    /\ ~Probed
    /\ \E call \in {placeWordCall(grid, w, r, c, d)} :
         /\ result' = IF call.threw
                      THEN [word |-> w, row |-> r, col |-> c, direction |-> d,
                            threw |-> TRUE, error |-> call.error]
                      ELSE [word |-> w, row |-> r, col |-> c, direction |-> d,
                            threw |-> FALSE, returned |-> call.returned]
         /\ grid' = call.given
    /\ prev' = grid
    /\ op' = "placeWordCall"
    /\ UNCHANGED <<calls, hookVars, letters, dictionary, config, validWords, pc, selectedWords,
                   attempt, results>>

\* the words the intersection graph of the probes is built from
ProbeWords == <<CAT, ACT, CATS>>

\* findValidPlacements(word, grid, graph) and the scoring of its candidates,
\* as placeWordsRecursively does for the word at hand
FindValidPlacements ==
  \E w \in Words :
    /\ ~Probed
    /\ \E cands \in {ScoreCandidates(
                        findValidPlacements(w, grid, buildIntersectionGraph(ProbeWords)),
                        grid)} :
         result' = [word |-> w, candidates |-> cands]
    /\ grid' = grid
    /\ prev' = grid
    /\ op' = "findValidPlacements"
    /\ UNCHANGED <<calls, hookVars, letters, dictionary, config, validWords, pc, selectedWords,
                   attempt, results>>

NextProbe == PlaceProbedWord \/ ValidatePlacement \/ PlaceWordCall \/ FindValidPlacements

SpecProbe == Init /\ [][NextProbe]_vars

-----------------------------------------------------------------------------
(* scoreGrid called on a grid that accepted placements built *)

\* the ScoringWeights given to scoreGrid
WeightChoices ==
  {[compactness |-> Rat(2, 5), density |-> Rat(1, 5),
    intersections |-> Rat(3, 10), symmetry |-> Rat(1, 10)],
   [compactness |-> Rat(1, 4), density |-> Rat(1, 4),
    intersections |-> Rat(1, 4), symmetry |-> Rat(1, 4)],
   [compactness |-> Rat(0, 1), density |-> Rat(1, 2),
    intersections |-> Rat(0, 1), symmetry |-> Rat(1, 2)]}

\* scoreGrid(grid, weights), called once on the finished grid: its four locals
\* and the value it returns
ScoreGrid ==
  \E weights \in WeightChoices :
    /\ op # "scoreGrid"
    /\ result' = [compactness |-> calculateCompactness(grid),
                  density |-> calculateDensity(grid),
                  intersections |-> calculateIntersectionScore(grid),
                  symmetry |-> calculateSymmetry(grid),
                  weights |-> weights,
                  score |-> scoreGrid(grid, weights)]
    /\ prev' = grid
    /\ op' = "scoreGrid"
    /\ UNCHANGED <<grid, calls, hookVars, letters, dictionary, config, validWords, pc, selectedWords,
                   attempt, results>>

\* a further word is placed on the grid under construction; the grid is
\* scored once it is complete
PlaceNextWord ==
  /\ op # "scoreGrid"
  /\ PlaceWord

NextScore == PlaceNextWord \/ ScoreGrid

SpecScore == Init /\ [][NextScore]_vars

-----------------------------------------------------------------------------
(* findValidWords called on a letter bag, a dictionary and length bounds *)

TAT == <<"T", "A", "T">>
TAX == <<"T", "A", "X">>
AT == <<"A", "T">>
cat == <<"c", "a", "t">>

\* the entries a dictionary is drawn from
DictEntries == {CAT, cat, ACT, TAT, AT, CATS, TAX}

\* the letter bags
LetterBags ==
  {<<"C", "A", "T">>, <<"c", "a", "t", "s">>, <<"T", "A", "T", "C">>, <<"A", "T">>, << >>}

\* the sequences of at most n distinct elements of S
RECURSIVE DistinctSeqs(_, _)
DistinctSeqs(S, n) ==
  IF n = 0 THEN {<< >>}
  ELSE LET shorter == DistinctSeqs(S, n - 1)
       IN shorter \cup
          {Append(p[1], p[2]) :
             p \in {q \in shorter \X S :
                      Len(q[1]) = n - 1 /\ \A i \in 1..Len(q[1]) : q[1][i] # q[2]}}

InitWF ==
  /\ grid = createGrid
  /\ prev = createGrid
  /\ op = "createGrid"
  /\ letters \in LetterBags
  /\ dictionary \in DistinctSeqs(DictEntries, MaxDict)
  /\ config \in [minLength : {2, 3}, maxLength : {3, 4}]
  /\ validWords = << >>
  /\ pc = "start"
  /\ selectedWords = << >>
  /\ attempt = 0
  /\ results = << >>
  /\ result = NoResult
  /\ calls = << >>
  /\ NoHook

FindValidWords ==
  /\ pc = "start"
  /\ validWords' = findValidWords(letters, dictionary, config)
  /\ pc' = "found"
  /\ UNCHANGED <<gridVars, calls, hookVars, letters, dictionary, config, selectedWords, attempt, results, result>>

NextWF == FindValidWords

SpecWF == InitWF /\ [][NextWF]_vars

-----------------------------------------------------------------------------
(* generatePuzzle called on letters, a dictionary and params *)

\* the inputs: letters and the dictionary in the Set's iteration order
Scenarios ==
  {[letters |-> <<"C", "A", "T", "S">>, dictionary |-> <<CAT, CATS, SAT, ACT, CAST, TAX>>],
   [letters |-> <<"C", "A", "T", "S">>, dictionary |-> <<CAT, CATS, ACT, SAT>>],
   [letters |-> <<"c", "a", "t", "s">>, dictionary |-> <<ACT, cat, CATS, CAT, SAT>>],
   [letters |-> <<"C", "A", "T", "S", "O", "S">>, dictionary |-> <<CAT, SOS>>],
   [letters |-> <<"Q", "Z", "X">>, dictionary |-> <<CAT, TAX>>]}

\* the params given, each merged over DEFAULT_PARAMS
ParamChoices ==
  [placementStrategy : {"longestFirst", "mostConnectedFirst", "random"},
   minWordCount : {2, 4},
   maxWordCount : {3, 4, 8},
   maxPlacementCandidates : {1, 10},
   candidatesToGenerate : 1..MaxCandidates]

\* params = {}
NoParams == << >>

\* the values generateId can return
PuzzleIds == {"puzzle-1-a", "puzzle-1-b"}

\* the ids n calls of generateId return: all alike, or any of two values each
\* for up to two calls
IdAssignments(n) ==
  IF n <= 2 THEN [1..n -> PuzzleIds]
  ELSE {[k \in 1..n |-> id] : id \in PuzzleIds}
       \cup {[k \in 1..n |-> IF k = 1 THEN "puzzle-1-a" ELSE "puzzle-1-b"]}

\* the message with the two numbers exchanged
NotEnoughWordsSwapped(found, required) ==
  <<"Not enough valid words. Found ", required, ", need at least ", found>>

\* `Not enough valid words. Found ${found}, need at least ${required}`
NotEnoughWords(found, required) ==
  <<"Not enough valid words. Found ", found, ", need at least ", required>>

\* 'Could not generate any valid grid layouts'
NoLayout == <<"Could not generate any valid grid layouts">>

InitGen ==
  /\ grid = createGrid
  /\ prev = createGrid
  /\ op = "createGrid"
  /\ \E sc \in Scenarios : letters = sc.letters /\ dictionary = sc.dictionary
  /\ \E params \in ParamChoices \cup {NoParams} : config = MergeParams(params)
  /\ validWords = << >>
  /\ pc = "start"
  /\ selectedWords = << >>
  /\ attempt = 0
  /\ results = << >>
  /\ result = NoResult
  /\ calls = << >>
  /\ NoHook

\* generatePuzzle, step 1 and the check on the number of words found
GenFindWords ==
  /\ pc = "start"
  /\ LET found == findValidWords(letters, dictionary,
                    [minLength |-> config.minWordLength, maxLength |-> config.maxWordLength])
     IN /\ validWords' = found
        /\ IF Len(found) < config.minWordCount
           THEN /\ result' = [success |-> FALSE,
                              error |-> NotEnoughWords(Len(found), config.minWordCount)]
                /\ pc' = "done"
           ELSE /\ result' = result
                /\ pc' = "select"
  /\ UNCHANGED <<gridVars, calls, hookVars, letters, dictionary, config, selectedWords, attempt, results>>

\* generatePuzzle, steps 2 and 3
GenSelectWords ==
  /\ pc = "select"
  /\ selectedWords' = selectWords(validWords, buildIntersectionGraph(validWords), config)
  /\ attempt' = 0
  /\ results' = << >>
  /\ pc' = "attempts"
  /\ UNCHANGED <<gridVars, calls, hookVars, letters, dictionary, config, validWords, result>>

\* one pass of the loop of generateGridCandidates
GenAttempt ==
  /\ pc = "attempts"
  /\ attempt < config.candidatesToGenerate * 2
  /\ \E g \in {tryGenerateGrid(selectedWords, buildIntersectionGraph(validWords),
                                 config, attempt)} :
     LET kept == IF g # NoGrid /\ isGridConnected(g) THEN Append(results, g) ELSE results
     IN /\ results' = kept
        /\ grid' = IF g # NoGrid THEN g ELSE createGrid
        /\ prev' = createGrid
        /\ op' = "tryGenerateGrid"
        /\ attempt' = attempt + 1
        /\ pc' = IF Len(kept) >= config.candidatesToGenerate
                    \/ ~(attempt + 1 < config.candidatesToGenerate * 2)
                 THEN "rank" ELSE "attempts"
  /\ UNCHANGED <<calls, hookVars, letters, dictionary, config, validWords, selectedWords, result>>

\* generatePuzzle, from the check on the candidates to the return
GenRank ==
  /\ pc = "rank"
  /\ IF Len(results) = 0
     THEN result' = [success |-> FALSE, error |-> NoLayout]
     ELSE \E ids \in IdAssignments(Len(results)) :
            LET scored == [k \in 1..Len(results) |->
                             ScoredCandidate(results[k], letters, validWords, config, ids[k])]
                sorted == StableSort(scored, [name |-> "overallScoreDesc"])
            IN result' = [success |-> TRUE,
                          puzzle |-> sorted[1].puzzle,
                          metrics |-> sorted[1].metrics,
                          allCandidates |->
                            SubSeq(sorted, 1, Min(config.candidatesToGenerate, Len(sorted)))]
  /\ pc' = "done"
  /\ UNCHANGED <<gridVars, calls, hookVars, letters, dictionary, config, validWords, selectedWords,
                 attempt, results>>

NextGen == GenFindWords \/ GenSelectWords \/ GenAttempt \/ GenRank

SpecGen == InitGen /\ [][NextGen]_vars

\* the caller keeps the result and calls generatePuzzle again with the same
\* letters, dictionary and params
GenCallAgain ==
  /\ pc = "done"
  /\ Len(calls) < MaxCalls
  /\ calls' = Append(calls, result)
  /\ grid' = createGrid
  /\ prev' = createGrid
  /\ op' = "createGrid"
  /\ validWords' = << >>
  /\ pc' = "start"
  /\ selectedWords' = << >>
  /\ attempt' = 0
  /\ results' = << >>
  /\ result' = NoResult
  /\ UNCHANGED <<letters, dictionary, config, hookVars>>

NextTwice == NextGen \/ GenCallAgain

SpecTwice == InitGen /\ [][NextTwice]_vars

-----------------------------------------------------------------------------
(* usePuzzleHash.  A string is a sequence of characters.  A number beyond    *)
(* 32 bits is the pair [hi, lo] that stands for hi * 2^16 + lo, with lo in   *)
(* 0..2^16 - 1 and hi of either sign.                                         *)

Limb == 65536

\* the decimal digits of n >= 0
DigitChars == <<"0", "1", "2", "3", "4", "5", "6", "7", "8", "9">>

RECURSIVE NatToString(_)
NatToString(n) ==
  IF n < 10 THEN <<DigitChars[n + 1]>>
  ELSE Append(NatToString(n \div 10), DigitChars[(n % 10) + 1])

\* String(n) of an integer
NumberToString(n) == IF n < 0 THEN <<"-">> \o NatToString(0 - n) ELSE NatToString(n)

\* hash << 5: ToInt32(hash) shifted left by five bits, as a signed 32-bit integer
ShiftLeft5(hash) ==
  LET t == hash.lo * 32
      hi == (((hash.hi % Limb) * 32) + (t \div Limb)) % Limb
  IN [hi |-> IF hi >= Limb \div 2 THEN hi - Limb ELSE hi, lo |-> t % Limb]

\* x + y
WideAdd(x, y) ==
  LET lo == x.lo + y.lo
  IN [hi |-> x.hi + y.hi + (lo \div Limb), lo |-> lo % Limb]

\* Math.abs(x)
WideAbs(x) ==
  IF x.hi >= 0 THEN x
  ELSE IF x.lo = 0 THEN [hi |-> 0 - x.hi, lo |-> 0]
  ELSE [hi |-> (0 - x.hi) - 1, lo |-> Limb - x.lo]

Base36Chars ==
  <<"0", "1", "2", "3", "4", "5", "6", "7", "8", "9", "a", "b", "c", "d", "e", "f", "g", "h",
    "i", "j", "k", "l", "m", "n", "o", "p", "q", "r", "s", "t", "u", "v", "w", "x", "y", "z">>

RECURSIVE ToBase36(_)
\* x.toString(36) of x >= 0
ToBase36(x) ==
  LET rest == ((x.hi % 36) * Limb) + x.lo
      quotient == [hi |-> x.hi \div 36, lo |-> rest \div 36]
      digit == Base36Chars[(rest % 36) + 1]
  IN IF quotient.hi = 0 /\ quotient.lo = 0 THEN <<digit>>
     ELSE Append(ToBase36(quotient), digit)

\* hash = ((hash << 5) + hash) + str.charCodeAt(i)
HashStep(hash, ch) ==
  WideAdd(WideAdd(ShiftLeft5(hash), hash), [hi |-> 0, lo |-> CharCode(ch)])

RECURSIVE HashLoop(_, _, _, _)
\* the loop of hashString over the characters from..to, entered with hash:
\* the first half of the range, and from its value the second half
HashLoop(str, from, to, hash) ==
  IF from > to THEN hash
  ELSE IF from = to THEN HashStep(hash, str[from])
  ELSE LET mid == (from + to) \div 2
       IN CHOOSE h \in {HashLoop(str, mid + 1, to, half) :
                          half \in {HashLoop(str, from, mid, hash)}} : TRUE

\* djb2
hashString(str) == ToBase36(WideAbs(HashLoop(str, 1, Len(str), [hi |-> 0, lo |-> 5381])))

RECURSIVE Join(_, _)
\* cells.join(sep)
Join(cells, sep) ==
  IF cells = << >> THEN << >>
  ELSE IF Len(cells) = 1 THEN cells[1]
  ELSE Join(SubSeq(cells, 1, Len(cells) - 1), sep) \o sep \o cells[Len(cells)]

hashGrid(g) ==
  LET minRow == g.bounds.minRow
      minCol == g.bounds.minCol
      cells == [k \in 1..Len(g.cells) |->
                  NumberToString(g.cells[k].key[1] - minRow) \o <<",">>
                    \o NumberToString(g.cells[k].key[2] - minCol) \o <<":">>
                    \o <<g.cells[k].letter>>]
  IN hashString(Join(StableSort(cells, [name |-> "strings"]), <<"|">>))

-----------------------------------------------------------------------------
(* deduplicateWordsByLetters called on an array of words.  An entry is a   *)
(* record: [string |-> w] for a string, and for an object a record with    *)
(* the properties it has among word and funScore.                          *)

\* the null given in place of an array: a value apart from every array of entries
NullWords == <<[null |-> TRUE]>>

\* typeof wordObj === 'string'
IsString(wordObj) == "string" \in DOMAIN wordObj

\* typeof wordObj === 'string' ? wordObj : wordObj.word, when it is truthy
HasWord(wordObj) ==
  IF IsString(wordObj) THEN wordObj.string # << >>
  ELSE "word" \in DOMAIN wordObj /\ wordObj.word # << >>

WordOf(wordObj) == IF IsString(wordObj) THEN wordObj.string ELSE wordObj.word

\* word.toUpperCase().split('').sort().join('')
getLetterSignature(word) == StableSort(toUpperCase(word), [name |-> "codeUnit"])

\* typeof x === 'string' ? 0 : (x.funScore || 0)
FunScoreOrZero(wordObj) ==
  IF IsString(wordObj) THEN Rat(0, 1)
  ELSE IF "funScore" \in DOMAIN wordObj THEN wordObj.funScore
  ELSE Rat(0, 1)

RECURSIVE GroupWords(_, _, _)
\* the first loop of deduplicateWordsByLetters from entry i on: groups is the
\* Map as a sequence of [signature, group] in insertion order
GroupWords(words, i, groups) ==
  IF i > Len(words) THEN groups
  ELSE IF ~HasWord(words[i]) THEN GroupWords(words, i + 1, groups)
  ELSE LET signature == getLetterSignature(WordOf(words[i]))
           at == {k \in 1..Len(groups) : groups[k].signature = signature}
       IN IF at = {}
          THEN GroupWords(words, i + 1,
                          Append(groups, [signature |-> signature, group |-> <<words[i]>>]))
          ELSE LET k == CHOOSE j \in at : TRUE
               IN GroupWords(words, i + 1,
                             [groups EXCEPT ![k].group = Append(@, words[i])])

RECURSIVE ReduceLowest(_, _, _)
\* the reduce keeping the entry of the lowest fun score
ReduceLowest(group, i, acc) ==
  IF i > Len(group) THEN acc
  ELSE ReduceLowest(group, i + 1,
                    IF RatCompare(FunScoreOrZero(group[i]), FunScoreOrZero(acc)) < 0
                    THEN group[i] ELSE acc)

RECURSIVE ReduceBest(_, _, _)
\* group.reduce((prev, current) => currentScore > prevScore ? current : prev)
\* from element i on, prev = acc
ReduceBest(group, i, acc) ==
  IF i > Len(group) THEN acc
  ELSE ReduceBest(group, i + 1,
                  IF RatCompare(FunScoreOrZero(group[i]), FunScoreOrZero(acc)) > 0
                  THEN group[i] ELSE acc)

\* the stats of deduplicateWordsByLetters
DedupStats(words, filteredWords) ==
  [original |-> Len(words),
   filtered |-> Len(words) - Len(filteredWords),
   kept |-> Len(filteredWords)]

deduplicateWordsByLetters(words) ==
  IF words = NullWords \/ words = << >>
  THEN [filteredWords |-> << >>, stats |-> [original |-> 0, filtered |-> 0, kept |-> 0]]
  ELSE LET groups == GroupWords(words, 1, << >>)
           filteredWords ==
             [k \in 1..Len(groups) |->
                IF Len(groups[k].group) = 1 THEN groups[k].group[1]
                ELSE ReduceBest(groups[k].group, 2, groups[k].group[1])]
       IN [filteredWords |-> filteredWords, stats |-> DedupStats(words, filteredWords)]

\* the entries an array of words is drawn from
WordEntries ==
  {[word |-> CAT, funScore |-> Rat(4, 5)],
   [word |-> ACT, funScore |-> Rat(3, 5)],
   [word |-> cat, funScore |-> Rat(0 - 1, 10)],
   [word |-> TAX, funScore |-> Rat(1, 2)],
   [word |-> ACT],
   [funScore |-> Rat(4, 5)],
   [string |-> CAT],
   [word |-> << >>, funScore |-> Rat(1, 2)]}

RECURSIVE SeqsUpTo(_, _)
\* the sequences of at most n elements of S
SeqsUpTo(S, n) ==
  IF n = 0 THEN {<< >>}
  ELSE LET shorter == SeqsUpTo(S, n - 1)
       IN shorter \cup {Append(p[1], p[2]) : p \in {q \in shorter \X S : Len(q[1]) = n - 1}}

InitDedup ==
  /\ grid = createGrid
  /\ prev = createGrid
  /\ op = "createGrid"
  /\ letters = << >>
  /\ dictionary = << >>
  /\ config = "none"
  /\ validWords = << >>
  /\ pc = "start"
  /\ selectedWords = << >>
  /\ attempt = 0
  /\ results = << >>
  /\ result = NoResult
  /\ calls = << >>
  /\ wordsArray \in SeqsUpTo(WordEntries, MaxEntries) \cup {NullWords}
  /\ deduplicationResult = NoResult
  /\ generation = NoResult

Deduplicate ==
  /\ pc = "start"
  /\ deduplicationResult' = deduplicateWordsByLetters(wordsArray)
  /\ pc' = "deduplicated"
  /\ UNCHANGED <<gridVars, calls, letters, dictionary, config, validWords, selectedWords,
                 attempt, results, result, wordsArray, generation>>

NextDedup == Deduplicate

SpecDedup == InitDedup /\ [][NextDedup]_vars

-----------------------------------------------------------------------------
(* useGeneration: the module state built from the enhanced wordlist, and   *)
(* generate called on a request                                            *)

\* filteredEnhancedWordlist.words[word]: the positions of the filtered words
\* under that key
WordDataAt(filteredWords, word) ==
  {k \in 1..Len(filteredWords) : filteredWords[k].word = word}

\* filteredEnhancedWordlist.words[word]?.funScore || 0
FunScoreIn(filteredWords, word) ==
  LET at == WordDataAt(filteredWords, word)
  IN IF at = {} THEN Rat(0, 1) ELSE filteredWords[CHOOSE k \in at : TRUE].funScore

\* getFunScore(word)
getFunScore(filteredWords, word) == FunScoreIn(filteredWords, toUpperCase(word))

\* filteredWordsByLength[String(count)]: the words of that length in the order
\* pushed, sorted by fun score, descending
wordsByLength(filteredWords, count) ==
  LET pushed == SelectSeq([k \in 1..Len(filteredWords) |-> filteredWords[k].word],
                          LAMBDA w : Len(w) = count)
      scores == [w \in {pushed[k] : k \in 1..Len(pushed)} |-> FunScoreIn(filteredWords, w)]
  IN StableSort(pushed, [name |-> "funScoreDesc", scores |-> scores])

RECURSIVE AddAll(_, _, _)
\* set.add(subWord.toUpperCase()) for the sub-words from position i on
AddAll(set, subWords, i) ==
  IF i > Len(subWords) THEN set
  ELSE LET w == toUpperCase(subWords[i])
       IN AddAll(IF \E k \in 1..Len(set) : set[k] = w THEN set ELSE Append(set, w),
                 subWords, i + 1)

RECURSIVE allValidWords(_, _, _)
\* the Set of the sub-words of the filtered words from word k on, in iteration order
allValidWords(filteredWords, k, set) ==
  IF k > Len(filteredWords) THEN set
  ELSE allValidWords(filteredWords, k + 1, AddAll(set, filteredWords[k].subWords, 1))

\* the values generateRandomLetters(count) can return: any word of that
\* length, or the first letters of "ABCDEFGH" when there is none
generateRandomLetters(filteredWords, count) ==
  LET wordsForLength == wordsByLength(filteredWords, count)
  IN IF Len(wordsForLength) > 0
     THEN {toUpperCase(wordsForLength[index]) : index \in 1..Len(wordsForLength)}
     ELSE {SubSeq(<<"A", "B", "C", "D", "E", "F", "G", "H">>, 1, count)}

\* getPreComputedSubWords(letters)?.length || 0
PreComputedCount(filteredWords, ls) ==
  LET at == WordDataAt(filteredWords, toUpperCase(ls))
  IN IF at = {} THEN 0 ELSE Len(filteredWords[CHOOSE k \in at : TRUE].subWords)

\* gridScore * 0.85 + funScore * 0.15
CombinedScore(gridScore, funScore) ==
  RatAdd(RatMul(gridScore, Rat(17, 20)), RatMul(funScore, Rat(3, 20)))

RECURSIVE CurateLoop(_, _, _, _, _)
\* the loop of generate over result.allCandidates from candidate i on
CurateLoop(allCandidates, i, seenHashes, curatedPuzzles, funScore) ==
  IF i > Len(allCandidates) THEN curatedPuzzles
  ELSE LET candidate == allCandidates[i]
           gridHash == hashGrid(candidate.puzzle.grid)
       IN IF gridHash \in seenHashes
          THEN CurateLoop(allCandidates, i + 1, seenHashes, curatedPuzzles, funScore)
          ELSE LET combinedScore == CombinedScore(candidate.metrics.overallScore, funScore)
               IN CurateLoop(allCandidates, i + 1, seenHashes \cup {gridHash},
                             Append(curatedPuzzles,
                                    [id |-> candidate.puzzle.id,
                                     gridHash |-> gridHash,
                                     score |-> combinedScore,
                                     metrics |-> [candidate.metrics EXCEPT
                                                    !.overallScore = combinedScore],
                                     grid |-> candidate.puzzle.grid,
                                     words |-> candidate.puzzle.words,
                                     bonusWords |-> candidate.puzzle.bonusWords,
                                     feedback |-> [liked |-> "null", notes |-> Undefined]]),
                             funScore)

\* request.params.f || d for a numeric f
NumberOr(params, f, d) == IF f \in DOMAIN params /\ params[f] # 0 THEN params[f] ELSE d

\* request.params.f || d for a weight f
WeightOr(params, f, d) == IF f \in DOMAIN params /\ params[f].n # 0 THEN params[f] ELSE d

\* the params generate records in the Generation
GenerationParams(params) ==
  [minWordLength |-> 3,
   maxWordLength |-> 10,
   minWordCount |-> NumberOr(params, "minWordCount", 4),
   maxWordCount |-> NumberOr(params, "maxWordCount", 6),
   mustIncludeLongestWord |-> TRUE,
   placementStrategy |-> IF "placementStrategy" \in DOMAIN params
                         THEN params.placementStrategy ELSE "longestFirst",
   maxPlacementCandidates |-> 10,
   maxBacktrackDepth |-> 5,
   compactnessWeight |-> WeightOr(params, "compactnessWeight", Rat(2, 5)),
   densityWeight |-> WeightOr(params, "densityWeight", Rat(1, 5)),
   intersectionWeight |-> WeightOr(params, "intersectionWeight", Rat(3, 10)),
   symmetryWeight |-> WeightOr(params, "symmetryWeight", Rat(1, 10)),
   candidatesToGenerate |-> NumberOr(params, "candidatesToGenerate", 10)]

\* the sub-words of CATS in the wordlist
SubWordsOfCATS == <<CAT, CATS, ACT, SAT, CAST>>

\* the enhanced wordlists: Object.entries(enhancedWordlist.words) as entries
EnhancedWordlists ==
  {<<[word |-> CATS, funScore |-> Rat(3, 5), subWords |-> SubWordsOfCATS, subWordCount |-> 5]>>,
   <<[word |-> CATS, funScore |-> Rat(3, 5), subWords |-> SubWordsOfCATS, subWordCount |-> 5],
     [word |-> CAST, funScore |-> Rat(4, 5), subWords |-> SubWordsOfCATS, subWordCount |-> 5],
     [word |-> TAX, funScore |-> Rat(1, 2), subWords |-> <<TAX, AT>>, subWordCount |-> 2]>>,
   <<[word |-> CATS, funScore |-> Rat(0, 1), subWords |-> SubWordsOfCATS, subWordCount |-> 5]>>,
   <<[word |-> ACT, funScore |-> Rat(1, 2), subWords |-> <<ACT, CAT>>, subWordCount |-> 2],
     [word |-> SAT, funScore |-> Rat(3, 10), subWords |-> <<SAT, AT>>, subWordCount |-> 2]>>}

\* request.params
RequestParams ==
  {[minWordCount |-> 2, maxWordCount |-> 3, candidatesToGenerate |-> MaxCandidates],
   [minWordCount |-> 4, maxWordCount |-> 4, placementStrategy |-> "random",
    candidatesToGenerate |-> 1],
   [minWordCount |-> 2, maxWordCount |-> 4]}

\* the requests: with or without letters, with or without a seed
Requests ==
  {[letters |-> <<"C", "A", "T", "S">>, letterCount |-> 4, seed |-> 7, params |-> params] :
     params \in RequestParams}
  \cup {[letters |-> <<"c", "a", "t", "s">>, letterCount |-> 4, params |-> params] :
          params \in RequestParams}
  \cup {[letterCount |-> count, seed |-> 0, params |-> params] :
          count \in {3, 4}, params \in RequestParams}

\* the values generateRandomSeed returns
RandomSeeds == {1, 999999}

\* the values Date.now() returns
Clock == {1000, 1001}

InitGeneration ==
  /\ grid = createGrid
  /\ prev = createGrid
  /\ op = "createGrid"
  /\ wordsArray \in EnhancedWordlists
  /\ deduplicationResult = deduplicateWordsByLetters(wordsArray)
  /\ dictionary = allValidWords(deduplicationResult.filteredWords, 1, << >>)
  /\ letters = << >>
  /\ config = "none"
  /\ validWords = << >>
  /\ pc = "ready"
  /\ selectedWords = << >>
  /\ attempt = 0
  /\ results = << >>
  /\ result = NoResult
  /\ calls = << >>
  /\ generation = NoResult

\* generate, from its entry to the call of generatePuzzle
GenerateStart ==
  /\ pc = "ready"
  /\ \E request \in Requests :
       /\ letters' \in (IF "letters" \in DOMAIN request THEN {request.letters}
                        ELSE generateRandomLetters(deduplicationResult.filteredWords,
                                                   request.letterCount))
       /\ \E seed \in (IF "seed" \in DOMAIN request THEN {request.seed} ELSE RandomSeeds) :
            generation' = [request |-> request, seed |-> seed]
       /\ config' = MergeParams([f \in DOMAIN request.params \cup {"candidatesToGenerate"} |->
                                   IF f = "candidatesToGenerate"
                                   THEN NumberOr(request.params, "candidatesToGenerate", 10)
                                   ELSE request.params[f]])
  /\ pc' = "start"
  /\ UNCHANGED <<gridVars, calls, dictionary, validWords, selectedWords, attempt, results,
                 result, wordsArray, deduplicationResult>>

\* generate, from the return of generatePuzzle to its own return or throw
GenerateFinish ==
  /\ pc = "done"
  /\ "request" \in DOMAIN generation
  /\ LET request == generation.request
         seed == generation.seed
         filteredWords == deduplicationResult.filteredWords
         funScore == getFunScore(filteredWords, letters)
     IN IF ~result.success
        THEN generation' =
               [error |-> <<result.error, "Letters: ", letters, "Pre-computed sub-words: ",
                            PreComputedCount(filteredWords, letters), "Seed: ", seed>>]
        ELSE \E now \in Clock : \E createdAt \in {t \in Clock : t >= now} :
               generation' =
                 [id |-> <<"gen-", now, "-", seed>>,
                  letterCount |-> request.letterCount,
                  letters |-> letters,
                  createdAt |-> createdAt,
                  seed |-> seed,
                  funScore |-> funScore,
                  params |-> GenerationParams(request.params),
                  puzzles |-> StableSort(CurateLoop(result.allCandidates, 1, {}, << >>, funScore),
                                         [name |-> "combinedScoreDesc"])]
  /\ pc' = "generated"
  /\ UNCHANGED <<gridVars, calls, letters, dictionary, config, validWords, selectedWords,
                 attempt, results, result, wordsArray, deduplicationResult>>

NextGeneration == GenerateStart \/ NextGen \/ GenerateFinish

SpecGeneration == InitGeneration /\ [][NextGeneration]_vars

-----------------------------------------------------------------------------
(* Properties of the grid *)

\* the set of keys a placed word covers
PlacedCells(p) ==
  LET cells == getWordCells(p.word, p.row, p.col, p.direction)
  IN {CellKey(cells[i].r, cells[i].c) : i \in 1..Len(cells)}

\* the letter a placed word puts on a key it covers
PlacedLetter(p, key) ==
  LET cells == getWordCells(p.word, p.row, p.col, p.direction)
  IN cells[CHOOSE i \in 1..Len(cells) : CellKey(cells[i].r, cells[i].c) = key].letter

FilledKeys(g) == {g.cells[i].key : i \in 1..Len(g.cells)}

\* C1: any two placed words share no cell or exactly one cell, and at a
\* shared cell both words have the same letter.
C1_OverlapAtMostOneCell ==
  \A i, j \in 1..Len(grid.placedWords) :
    i < j =>
      LET shared == PlacedCells(grid.placedWords[i]) \cap PlacedCells(grid.placedWords[j])
      IN /\ Cardinality(shared) <= 1
         /\ \A key \in shared :
              PlacedLetter(grid.placedWords[i], key) = PlacedLetter(grid.placedWords[j], key)

\* the cell before the first letter and the cell after the last letter of p
BeforeCell(p) ==
  IF p.direction = "horizontal" THEN <<p.row, p.col - 1>> ELSE <<p.row - 1, p.col>>

AfterCell(p) ==
  IF p.direction = "horizontal"
  THEN <<p.row, p.col + Len(p.word)>>
  ELSE <<p.row + Len(p.word), p.col>>

\* C2: for every placed word the cell before its first letter and the cell
\* after its last letter are empty in the grid, whatever was placed later.
C2_WordBoundariesEmpty ==
  \A i \in 1..Len(grid.placedWords) :
    LET p == grid.placedWords[i]
    IN /\ ~HasCell(grid, BeforeCell(p))
       /\ ~HasCell(grid, AfterCell(p))

Adjacent4(a, b) ==
  \/ a[1] = b[1] /\ (a[2] = b[2] + 1 \/ b[2] = a[2] + 1)
  \/ a[2] = b[2] /\ (a[1] = b[1] + 1 \/ b[1] = a[1] + 1)

RECURSIVE Reach(_, _)
\* the keys of `keys` joined to `frontier` by steps between 4-adjacent keys
Reach(keys, frontier) ==
  LET next == frontier \cup {k \in keys : \E f \in frontier : Adjacent4(k, f)}
  IN IF next = frontier THEN frontier ELSE Reach(keys, next)

Connected4(keys) ==
  keys = {} \/ Reach(keys, {CHOOSE k \in keys : TRUE}) = keys

\* C3: the filled cells of every grid built by accepted placements are
\* 4-connected, and isGridConnected returns true for the grid.
C3_GridConnected ==
  /\ Connected4(FilledKeys(grid))
  /\ isGridConnected(grid)

C3_Witness ==
  /\ op = "placeWord"
  /\ Len(grid.placedWords) = 3
  /\ grid.bounds.maxRow - grid.bounds.minRow >= 2
  /\ grid.bounds.maxCol - grid.bounds.minCol >= 3
  /\ isGridConnected(grid)

\* C4: every cell a placed word covers holds that word's letter at that
\* offset, after any accepted placements and after normalizeGrid.
C4_PlacedLettersInGrid ==
  \A i \in 1..Len(grid.placedWords) :
    LET p == grid.placedWords[i]
    IN \A k \in 1..Len(p.word) :
         getCell(grid,
                 IF p.direction = "horizontal" THEN p.row ELSE p.row + (k - 1),
                 IF p.direction = "horizontal" THEN p.col + (k - 1) ELSE p.col) = p.word[k]

C4_Witness ==
  /\ op = "normalizeGrid"
  /\ Len(grid.placedWords) = 3
  /\ prev.bounds.minRow < 0
  /\ prev.bounds.minCol < 0
  /\ grid.placedWords[1].direction # grid.placedWords[2].direction
  /\ C4_PlacedLettersInGrid

TightBounds(g) ==
  /\ \A k \in FilledKeys(g) :
        /\ g.bounds.minRow <= k[1] /\ k[1] <= g.bounds.maxRow
        /\ g.bounds.minCol <= k[2] /\ k[2] <= g.bounds.maxCol
  /\ \E k \in FilledKeys(g) : k[1] = g.bounds.minRow
  /\ \E k \in FilledKeys(g) : k[1] = g.bounds.maxRow
  /\ \E k \in FilledKeys(g) : k[2] = g.bounds.minCol
  /\ \E k \in FilledKeys(g) : k[2] = g.bounds.maxCol

\* C5: the bounds of every non-empty grid built by setCell, placeWord,
\* cloneGrid and normalizeGrid are the minimum and maximum row and column
\* of its filled cells.
C5_BoundsTight ==
  Len(grid.cells) > 0 => TightBounds(grid)

C5_Witness ==
  /\ op = "setCell"
  /\ Len(grid.cells) >= 2
  /\ grid.bounds.minRow > 0
  /\ grid.bounds.minCol < grid.bounds.maxCol
  /\ TightBounds(grid)

CellMap(g) == {<<g.cells[i].key, g.cells[i].letter>> : i \in 1..Len(g.cells)}

\* C6: normalizeGrid of a non-empty grid g has minRow = minCol = 0, holds
\* exactly g's cells moved by (-g.minRow, -g.minCol) with their letters, and
\* holds g's placed words, in order, moved by the same offset.
C6_NormalizeIsTranslation ==
  (op = "normalizeGrid" /\ Len(prev.cells) > 0) =>
    LET dr == prev.bounds.minRow
        dc == prev.bounds.minCol
    IN /\ grid.bounds.minRow = 0
       /\ grid.bounds.minCol = 0
       /\ Len(grid.cells) = Len(prev.cells)
       /\ CellMap(grid) = {<<CellKey(e[1][1] - dr, e[1][2] - dc), e[2]>> : e \in CellMap(prev)}
       /\ Len(grid.placedWords) = Len(prev.placedWords)
       /\ \A i \in 1..Len(prev.placedWords) :
            grid.placedWords[i] =
              [word |-> prev.placedWords[i].word,
               row |-> prev.placedWords[i].row - dr,
               col |-> prev.placedWords[i].col - dc,
               direction |-> prev.placedWords[i].direction]

C6_Witness ==
  /\ op = "normalizeGrid"
  /\ Len(prev.placedWords) >= 1
  /\ Len(prev.cells) > Len(prev.placedWords[1].word)
  /\ prev.bounds.minRow < 0
  /\ prev.bounds.minCol < 0
  /\ grid.bounds.minRow = 0
  /\ grid.bounds.minCol = 0

-----------------------------------------------------------------------------
(* Properties of findValidWords *)

\* the number of occurrences of the upper-case letter u in word, in any case
Occurrences(u, word) == Cardinality({i \in 1..Len(word) : ToUpperChar(word[i]) = u})

\* the letter multiset of word is contained in that of bag
SubMultiset(word, bag) ==
  \A u \in {ToUpperChar(word[i]) : i \in 1..Len(word)} :
    Occurrences(u, word) <= Occurrences(u, bag)

SeqToSet(q) == {q[i] : i \in 1..Len(q)}

\* C7: the words findValidWords returns are exactly the upper-case forms of
\* the dictionary entries whose length is within [minLength, maxLength] and
\* whose letter multiset is contained in the bag's.
C7_ValidWordsExact ==
  pc = "found" =>
    SeqToSet(validWords) =
      {toUpperCase(w) : w \in {e \in SeqToSet(dictionary) :
                                 /\ config.minLength <= Len(e)
                                 /\ Len(e) <= config.maxLength
                                 /\ SubMultiset(e, letters)}}

C7_Witness ==
  /\ pc = "found"
  /\ letters = <<"c", "a", "t", "s">>
  /\ config.minLength = 3
  /\ SeqToSet(dictionary) = {cat, TAT, AT}
  /\ validWords = <<CAT>>

-----------------------------------------------------------------------------
(* Properties of generatePuzzle *)

\* the words placed in a puzzle, as a set
PlacedWordSet(puzzle) == {puzzle.words[i].word : i \in 1..Len(puzzle.words)}

\* placed words and bonus words are disjoint and together are the valid words
PartitionsValidWords(puzzle) ==
  /\ PlacedWordSet(puzzle) \cap SeqToSet(puzzle.bonusWords) = {}
  /\ PlacedWordSet(puzzle) \cup SeqToSet(puzzle.bonusWords) = SeqToSet(validWords)

\* generatePuzzle has returned a puzzle
Returned == pc = "done" /\ "puzzle" \in DOMAIN result

\* C8: in every puzzle generatePuzzle returns (the best one and every entry of
\* allCandidates) the set of placed words and the set of bonus words are
\* disjoint and their union is the set of valid words found for the letters.
C8_PlacedAndBonusPartition ==
  Returned =>
    /\ PartitionsValidWords(result.puzzle)
    /\ \A k \in 1..Len(result.allCandidates) :
         PartitionsValidWords(result.allCandidates[k].puzzle)

C8_Witness ==
  /\ Returned
  /\ Len(result.puzzle.words) >= 3
  /\ Len(result.puzzle.bonusWords) >= 2
  /\ Len(result.allCandidates) = 2

\* the overallScore generatePuzzle gives grid g
OverallScoreOf(g) == ScoredCandidate(g, letters, validWords, config, "").metrics.overallScore

\* C12: in a successful result allCandidates is ordered by overallScore
\* non-increasing and has between 1 and candidatesToGenerate entries; puzzle
\* and metrics are those of its first entry, and no grid the attempts kept
\* scores higher.
C12_CandidatesRanked ==
  Returned =>
    /\ Len(result.allCandidates) >= 1
    /\ Len(result.allCandidates) <= config.candidatesToGenerate
    /\ \A k \in 1..(Len(result.allCandidates) - 1) :
         RatLeq(result.allCandidates[k + 1].metrics.overallScore,
                result.allCandidates[k].metrics.overallScore)
    /\ result.puzzle = result.allCandidates[1].puzzle
    /\ result.metrics = result.allCandidates[1].metrics
    /\ \A k \in 1..Len(results) :
         RatLeq(OverallScoreOf(results[k]), result.metrics.overallScore)

\* two candidates of different scores, the better one built by the later attempt
C12_Witness ==
  /\ Returned
  /\ Len(results) = 2
  /\ Len(result.allCandidates) = 2
  /\ RatCompare(OverallScoreOf(results[1]), OverallScoreOf(results[2])) < 0
  /\ result.puzzle.grid = normalizeGrid(results[2])

\* the length of the longest valid word
LongestLength == Max(0, CHOOSE n \in {Len(w) : w \in SeqToSet(validWords)} :
                          \A w \in SeqToSet(validWords) : Len(w) <= n)

\* the word ordering the attempt just made was given by orderWords
LastOrdering ==
  orderWords(selectedWords, buildIntersectionGraph(validWords),
             config.placementStrategy, attempt - 1)

\* C13: with mustIncludeLongestWord set, a longest valid word is at index 0
\* of the ordering of every attempt, and is the first placed word of every
\* returned candidate.
C13_LongestWordFirst ==
  config.mustIncludeLongestWord =>
    /\ (op = "tryGenerateGrid" /\ pc \in {"attempts", "rank"}) =>
          Len(LastOrdering[1]) = LongestLength
    /\ Returned =>
          \A k \in 1..Len(result.allCandidates) :
            Len(result.allCandidates[k].puzzle.words[1].word) = LongestLength

\* C14: allCandidates holds no two candidates whose normalized grids have the
\* same letters at the same coordinates.
C14_CandidatesDistinct ==
  Returned =>
    \A i, j \in 1..Len(result.allCandidates) :
      i # j => CellMap(result.allCandidates[i].puzzle.grid) #
               CellMap(result.allCandidates[j].puzzle.grid)

\* C15: with fewer than minWordCount valid words generatePuzzle returns a
\* failure whose message gives the number found and the number required, with
\* no puzzle and no candidates, before any selection or placement; placement
\* is reached only with enough words; for letters Q, Z, X and default params
\* the numbers are 0 and 4.
C15_NotEnoughWordsFailure ==
  /\ (pc = "done" /\ Len(validWords) < config.minWordCount) =>
        /\ result = [success |-> FALSE,
                     error |-> <<"Not enough valid words. Found ", Len(validWords),
                                 ", need at least ", config.minWordCount>>]
        /\ selectedWords = << >>
        /\ attempt = 0
        /\ results = << >>
        /\ op = "createGrid"
        /\ grid = createGrid
  /\ pc \in {"select", "attempts", "rank"} => Len(validWords) >= config.minWordCount
  /\ (pc = "done" /\ letters = <<"Q", "Z", "X">> /\ config = DEFAULT_PARAMS) =>
        /\ ~result.success
        /\ result.error[2] = 0
        /\ result.error[4] = 4

C15_Witness ==
  /\ pc = "done"
  /\ letters = <<"Q", "Z", "X">>
  /\ config = DEFAULT_PARAMS
  /\ validWords = << >>
  /\ result.error = <<"Not enough valid words. Found ", 0, ", need at least ", 4>>

\* params out of range: a maximum below its minimum
BadParams ==
  \/ config.maxWordLength < config.minWordLength
  \/ config.maxWordCount < config.minWordCount

\* C16: with params out of range generatePuzzle does no word selection or
\* placement and returns a failure that is neither of the two other errors.
C16_BadParamRejected ==
  BadParams =>
    /\ pc \in {"start", "done"}
    /\ pc = "done" =>
          /\ ~result.success
          /\ result.error # NoLayout
          /\ result.error[1] # "Not enough valid words. Found "

\* scenario S1: letters C,A,T,S, the six-word dictionary, params {}
IsS1 ==
  /\ letters = <<"C", "A", "T", "S">>
  /\ SeqToSet(dictionary) = {CAT, CATS, SAT, ACT, CAST, TAX}
  /\ config = DEFAULT_PARAMS

\* C17: in scenario S1 generatePuzzle succeeds, CATS is a placed word of the
\* returned puzzle (and of every candidate), each of CAT, SAT, ACT, CAST is a
\* placed word or a bonus word, and TAX is neither.
C17_ScenarioS1 ==
  (pc = "done" /\ IsS1) =>
    /\ Returned
    /\ result.success
    /\ \A puzzle \in {result.puzzle} \cup
                     {result.allCandidates[k].puzzle : k \in 1..Len(result.allCandidates)} :
         /\ CATS \in PlacedWordSet(puzzle)
         /\ {CAT, SAT, ACT, CAST} \subseteq
              PlacedWordSet(puzzle) \cup SeqToSet(puzzle.bonusWords)
         /\ TAX \notin PlacedWordSet(puzzle) \cup SeqToSet(puzzle.bonusWords)

C17_Witness ==
  /\ pc = "done"
  /\ IsS1
  /\ Len(result.allCandidates) = 10
  /\ CATS \in PlacedWordSet(result.puzzle)

-----------------------------------------------------------------------------
(* Properties of scoreGrid *)

Zero == Rat(0, 1)

One == Rat(1, 1)

\* C18: for the empty grid each of compactness, density, intersections and
\* symmetry is 0 and scoreGrid returns 0, whatever the weights.
C18_EmptyGridScoresZero ==
  (op = "scoreGrid" /\ Len(grid.cells) = 0 /\ Len(grid.placedWords) = 0) =>
    /\ result.compactness = Zero
    /\ result.density = Zero
    /\ result.intersections = Zero
    /\ result.symmetry = Zero
    /\ result.score = Zero

\* x lies in [0, 1]
InUnitInterval(x) == RatLeq(Zero, x) /\ RatLeq(x, One)

\* C19: for every grid built by accepted placements each of compactness,
\* density, intersections and symmetry lies in [0, 1], and scoreGrid returns
\* the sum of the four components each multiplied by its weight.
C19_ComponentsInUnitInterval ==
  op = "scoreGrid" =>
    /\ InUnitInterval(result.compactness)
    /\ InUnitInterval(result.density)
    /\ InUnitInterval(result.intersections)
    /\ InUnitInterval(result.symmetry)
    /\ result.score =
         RatAdd(RatAdd(RatMul(result.compactness, result.weights.compactness),
                       RatMul(result.density, result.weights.density)),
                RatAdd(RatMul(result.intersections, result.weights.intersections),
                       RatMul(result.symmetry, result.weights.symmetry)))

C19_Witness ==
  /\ op = "scoreGrid"
  /\ Len(grid.placedWords) = 3
  /\ result.intersections = One
  /\ RatCompare(Zero, result.symmetry) < 0
  /\ RatCompare(result.symmetry, One) < 0
  /\ RatCompare(result.density, One) < 0
  /\ RatCompare(Zero, result.score) < 0
  /\ RatCompare(result.score, One) < 0

\* the point reflection of key k through the centre of g's bounding box
Reflect(g, k) ==
  CellKey(g.bounds.minRow + g.bounds.maxRow - k[1], g.bounds.minCol + g.bounds.maxCol - k[2])

\* C20: calculateSymmetry returns the fraction of filled cells whose point
\* reflection through the centre of the bounding box is also filled.
C20_SymmetryIsReflectionFraction ==
  (op = "scoreGrid" /\ Len(grid.cells) > 0) =>
    result.symmetry =
      Rat(Cardinality({k \in FilledKeys(grid) : Reflect(grid, k) \in FilledKeys(grid)}),
          Cardinality(FilledKeys(grid)))

\* a GeneratorResult with every puzzle id blanked
WithoutIds(res) ==
  IF "puzzle" \in DOMAIN res
  THEN [res EXCEPT !.puzzle.id = "",
                   !.allCandidates =
                      [k \in 1..Len(res.allCandidates) |->
                         [res.allCandidates[k] EXCEPT !.puzzle.id = ""]]]
  ELSE res

\* C11: a call of generatePuzzle returns the result an earlier call with the
\* same letters, dictionary and params returned, puzzle ids included.
C11_Deterministic ==
  pc = "done" => \A k \in 1..Len(calls) : result = calls[k]

\* the same with the puzzle ids left out of the comparison
DeterministicUpToIds ==
  pc = "done" => \A k \in 1..Len(calls) : WithoutIds(result) = WithoutIds(calls[k])

-----------------------------------------------------------------------------
(* Order of the list findValidWords returns *)

\* a is before b alphabetically, or equal to it
AlphaLeq(a, b) ==
  \/ a = b
  \/ \E i \in 1..Min(Len(a), Len(b)) :
       /\ \A k \in 1..(i - 1) : a[k] = b[k]
       /\ LetterRank(a[i]) < LetterRank(b[i])
  \/ Len(a) < Len(b) /\ \A k \in 1..Len(a) : a[k] = b[k]

\* C9: the list findValidWords returns is sorted by length descending and,
\* among words of equal length, alphabetically ascending.
C9_SortedByLengthThenAlpha ==
  pc = "found" =>
    \A i, j \in 1..Len(validWords) :
      i < j =>
        \/ Len(validWords[i]) > Len(validWords[j])
        \/ Len(validWords[i]) = Len(validWords[j]) /\ AlphaLeq(validWords[i], validWords[j])

C9_Witness ==
  /\ pc = "found"
  /\ dictionary = <<CAT, CATS, ACT>>
  /\ validWords = <<CATS, ACT, CAT>>

\* C10: the list findValidWords returns holds no word twice.
C10_NoDuplicates ==
  pc = "found" =>
    \A i, j \in 1..Len(validWords) : i # j => validWords[i] # validWords[j]

-----------------------------------------------------------------------------
(* Properties of deduplicateWordsByLetters *)

\* the letters of a word with their multiplicities, whatever their case
LetterBag(word) == countLetters(word)

\* the positions of the input that hold a word
WordPositions(words) ==
  IF words = NullWords THEN {} ELSE {i \in 1..Len(words) : HasWord(words[i])}

Deduplicated == pc = "deduplicated"

\* C24: deduplicateWordsByLetters returns exactly one entry per letter
\* signature occurring among the input words; the entry is an input entry of
\* that signature whose fun score (0 when missing) is the highest among the
\* input entries of that signature; no two kept entries share a signature.
C24_OnePerSignatureBestKept ==
  Deduplicated =>
    LET out == deduplicationResult.filteredWords
        at == WordPositions(wordsArray)
    IN /\ {LetterBag(WordOf(out[k])) : k \in 1..Len(out)}
            = {LetterBag(WordOf(wordsArray[i])) : i \in at}
       /\ \A k, l \in 1..Len(out) :
            LetterBag(WordOf(out[k])) = LetterBag(WordOf(out[l])) => k = l
       /\ \A k \in 1..Len(out) :
            /\ \E i \in at : wordsArray[i] = out[k]
            /\ \A i \in at :
                 LetterBag(WordOf(wordsArray[i])) = LetterBag(WordOf(out[k]))
                   => RatLeq(FunScoreOrZero(wordsArray[i]), FunScoreOrZero(out[k]))

\* an anagram group whose best entry is not its first, next to a second signature
C24_Witness ==
  /\ Deduplicated
  /\ wordsArray # NullWords
  /\ Len(deduplicationResult.filteredWords) = 2
  /\ \E i, j \in WordPositions(wordsArray) :
       /\ i < j
       /\ LetterBag(WordOf(wordsArray[i])) = LetterBag(WordOf(wordsArray[j]))
       /\ RatCompare(FunScoreOrZero(wordsArray[i]), FunScoreOrZero(wordsArray[j])) < 0
       /\ wordsArray[j] = deduplicationResult.filteredWords[1]

\* C25: stats.original is the number of input entries, stats.kept the length
\* of filteredWords, and stats.filtered = original - kept is the number of
\* entries discarded as anagram duplicates (the entries that hold a word and
\* were not kept).
C25_StatsCountAnagramDuplicates ==
  Deduplicated =>
    LET stats == deduplicationResult.stats
        n == IF wordsArray = NullWords THEN 0 ELSE Len(wordsArray)
    IN /\ stats.original = n
       /\ stats.kept = Len(deduplicationResult.filteredWords)
       /\ stats.filtered = stats.original - stats.kept
       /\ stats.filtered = Cardinality(WordPositions(wordsArray)) - stats.kept

\* the three equations between the stats and the arrays, without the reading
\* of filtered as a count of anagram duplicates
StatsEquations ==
  Deduplicated =>
    LET stats == deduplicationResult.stats
        n == IF wordsArray = NullWords THEN 0 ELSE Len(wordsArray)
    IN /\ stats.original = n
       /\ stats.kept = Len(deduplicationResult.filteredWords)
       /\ stats.filtered = stats.original - stats.kept

-----------------------------------------------------------------------------
(* Properties of useGeneration *)

\* generate returned a Generation
Generated == pc = "generated" /\ "puzzles" \in DOMAIN generation

\* the wordlist holds a fun score for the source letters
FunScoreAvailable ==
  WordDataAt(deduplicationResult.filteredWords, toUpperCase(letters)) # {}

\* the final score the claim gives a puzzle of grid score gridScore
FinalScoreClaimed(gridScore) ==
  IF FunScoreAvailable
  THEN RatAdd(RatMul(Rat(17, 20), gridScore),
              RatMul(Rat(3, 20),
                     FunScoreIn(deduplicationResult.filteredWords, toUpperCase(letters))))
  ELSE gridScore

\* C21: the final score of every puzzle of a generation is
\* 0.85 * grid score + 0.15 * fun score when the wordlist holds a fun score for
\* the source letters, and exactly the grid score when it holds none.
C21_FinalScore ==
  Generated =>
    \A k \in 1..Len(generation.puzzles) :
      \E c \in 1..Len(result.allCandidates) :
        /\ result.allCandidates[c].puzzle.grid = generation.puzzles[k].grid
        /\ generation.puzzles[k].score
             = FinalScoreClaimed(result.allCandidates[c].metrics.overallScore)
        /\ generation.puzzles[k].metrics.overallScore = generation.puzzles[k].score

\* the part of C21 for source letters with a fun score
FinalScoreWithFun ==
  (Generated /\ FunScoreAvailable) =>
    \A k \in 1..Len(generation.puzzles) :
      \E c \in 1..Len(result.allCandidates) :
        /\ result.allCandidates[c].puzzle.grid = generation.puzzles[k].grid
        /\ generation.puzzles[k].score
             = FinalScoreClaimed(result.allCandidates[c].metrics.overallScore)

-----------------------------------------------------------------------------
(* Properties of validatePlacement and placeWord as calls *)

\* the cells under the word of the last call, as <<key, letter>> pairs
CellsUnder ==
  {<<IF result.direction = "horizontal"
     THEN <<result.row, result.col + (i - 1)>>
     ELSE <<result.row + (i - 1), result.col>>, result.word[i]>> : i \in 1..Len(result.word)}

Filled(g, key) == key \in FilledKeys(g)

\* the two neighbours of a cell across the direction of the word
PerpNeighbours(key) ==
  IF result.direction = "horizontal"
  THEN {<<key[1] - 1, key[2]>>, <<key[1] + 1, key[2]>>}
  ELSE {<<key[1], key[2] - 1>>, <<key[1], key[2] + 1>>}

\* R1: every occupied cell under the word holds the word's letter
RuleR1 == \A u \in CellsUnder : Filled(prev, u[1]) => u \in CellMap(prev)

\* R2: every cell under the word that is not an intersection cell has both
\* perpendicular neighbours empty
RuleR2 ==
  \A u \in CellsUnder :
    u \notin CellMap(prev) => \A n \in PerpNeighbours(u[1]) : ~Filled(prev, n)

\* R3: the cell before the first letter is empty
RuleR3 ==
  ~Filled(prev, IF result.direction = "horizontal"
                THEN <<result.row, result.col - 1>> ELSE <<result.row - 1, result.col>>)

\* R4: the cell after the last letter is empty
RuleR4 ==
  ~Filled(prev, IF result.direction = "horizontal"
                THEN <<result.row, result.col + Len(result.word)>>
                ELSE <<result.row + Len(result.word), result.col>>)

\* R5: on a grid with a placed word, some cell under the word is an
\* intersection cell
RuleR5 ==
  Len(prev.placedWords) > 0
    => \E u \in CellsUnder : u \in CellMap(prev)

\* C22: a placement that violates R1 at some cell is reported as the R1
\* letter conflict, whichever other rules it violates and at whichever cells.
C22_R1ReportedFirst ==
  (op = "validatePlacement" /\ ~RuleR1) => result.validation.reason = "R1"

\* C26: validatePlacement returns valid exactly when R1, R2, R3, R4 and R5 hold.
C26_ValidIffAllRules ==
  op = "validatePlacement"
    => (result.validation.valid <=> (RuleR1 /\ RuleR2 /\ RuleR3 /\ RuleR4 /\ RuleR5))

\* validatePlacement accepted a word that crosses a grid of two placed words
\* and extends into empty cells
C26_Witness ==
  /\ op = "validatePlacement"
  /\ Len(prev.placedWords) = 2
  /\ result.validation.valid
  /\ \E u \in CellsUnder : Filled(prev, u[1])
  /\ \E u \in CellsUnder : ~Filled(prev, u[1])

PlaceWordThrewOnGrid ==
  /\ op = "placeWordCall"
  /\ result.threw
  /\ Len(prev.placedWords) = 1
  /\ grid = prev

-----------------------------------------------------------------------------
(* Properties of the words read off the grid *)

\* the k-th key of the run of `len` cells from `start` in direction d
RunKey(start, d, k) ==
  IF d = "horizontal" THEN <<start[1], start[2] + (k - 1)>>
  ELSE <<start[1] + (k - 1), start[2]>>

\* the maximal runs of two or more adjacent filled cells of g, as
\* <<start, direction, length>>
MaximalRuns(g) ==
  {run \in FilledKeys(g) \X Direction \X (2..Len(g.cells)) :
     /\ \A k \in 1..run[3] : RunKey(run[1], run[2], k) \in FilledKeys(g)
     /\ RunKey(run[1], run[2], 0) \notin FilledKeys(g)
     /\ RunKey(run[1], run[2], run[3] + 1) \notin FilledKeys(g)}

\* the placed words of g that lie on the run and spell its letters
WordsOnRun(g, run) ==
  {p \in {g.placedWords[i] : i \in 1..Len(g.placedWords)} :
     /\ p.direction = run[2]
     /\ <<p.row, p.col>> = run[1]
     /\ Len(p.word) = run[3]
     /\ \A k \in 1..run[3] : <<RunKey(run[1], run[2], k), p.word[k]>> \in CellMap(g)}

\* a and b are consecutive letters of placed word p
ConsecutiveIn(p, a, b) ==
  \E k \in 1..(Len(p.word) - 1) :
    {RunKey(<<p.row, p.col>>, p.direction, k),
     RunKey(<<p.row, p.col>>, p.direction, k + 1)} = {a, b}

OneEntryPerRun ==
  \A run \in MaximalRuns(grid) :
    Cardinality({i \in 1..Len(grid.placedWords) :
                   grid.placedWords[i] \in WordsOnRun(grid, run)}) = 1

-----------------------------------------------------------------------------
(* Properties of the placement search *)

\* the words of the placed words of g, in placement order
PlacedWordSeq(g) == [k \in 1..Len(g.placedWords) |-> g.placedWords[k].word]

\* the attempt just made returned a grid
AttemptReturnedGrid == op = "tryGenerateGrid" /\ attempt > 0 /\ grid # createGrid

\* C28: every grid the placement search returns holds the words of the
\* attempt's ordering, each once and in that order; every candidate
\* generatePuzzle returns has min(maxWordCount, number of valid words) placed
\* words; an attempt that cannot place some word yields no grid.
C28_NoPartialLayout ==
  /\ AttemptReturnedGrid => PlacedWordSeq(grid) = LastOrdering
  /\ \A k \in 1..Len(results) :
       Len(results[k].placedWords) = Min(config.maxWordCount, Len(validWords))
  /\ Returned =>
       \A k \in 1..Len(result.allCandidates) :
         Len(result.allCandidates[k].puzzle.words)
           = Min(config.maxWordCount, Len(validWords))

\* generatePuzzle returned candidates of maxWordCount words out of more valid
\* words
C28_Witness ==
  /\ Returned
  /\ config.maxWordCount < Len(validWords)
  /\ Len(result.allCandidates) >= 2
  /\ \A k \in 1..Len(result.allCandidates) :
       Len(result.allCandidates[k].puzzle.words) = config.maxWordCount

\* an attempt on words that share no letter yielded no grid
AttemptYieldedNoGrid ==
  /\ op = "tryGenerateGrid"
  /\ attempt > 0
  /\ grid = createGrid
  /\ Len(selectedWords) >= 2
  /\ results = << >>

-----------------------------------------------------------------------------
(* Properties of the placement candidates *)

\* the number of cells under candidate c that are filled in g
FilledUnder(g, c) ==
  Cardinality({k \in 1..Len(c.word) :
                 RunKey(<<c.row, c.col>>, c.direction, k) \in FilledKeys(g)})

\* the bounding box of g with the cells of candidate c added
BoxWith(g, c) ==
  LET keys == FilledKeys(g) \cup {RunKey(<<c.row, c.col>>, c.direction, k) : k \in 1..Len(c.word)}
  IN <<{key[1] : key \in keys}, {key[2] : key \in keys}>>

\* C29: every candidate findValidPlacements returns for a non-empty grid
\* carries the number of cells of the placement that are already filled in
\* the grid, the heuristic score adds 10 times this number, and of two
\* candidates of the same bounding box the one over more filled cells scores
\* higher.
C29_CandidateIntersectionCount ==
  (op = "findValidPlacements" /\ Len(prev.placedWords) > 0) =>
    /\ \A k \in 1..Len(result.candidates) :
         LET c == result.candidates[k]
         IN /\ c.intersections = FilledUnder(prev, c)
            /\ c.score = scorePlacementCandidate(c.word, c.row, c.col, c.direction,
                                                 prev, FilledUnder(prev, c))
    /\ \A j, k \in 1..Len(result.candidates) :
         LET a == result.candidates[j]
             b == result.candidates[k]
         IN (BoxWith(prev, a) = BoxWith(prev, b) /\ FilledUnder(prev, a) > FilledUnder(prev, b))
              => RatCompare(a.score, b.score) > 0

\* findValidPlacements returned a candidate over one filled cell and the
\* count it carries is 1
CandidatesOverOneCell ==
  /\ op = "findValidPlacements"
  /\ Len(prev.placedWords) > 0
  /\ Len(result.candidates) >= 2
  /\ \A k \in 1..Len(result.candidates) :
       /\ FilledUnder(prev, result.candidates[k]) = 1
       /\ result.candidates[k].intersections = 1

-----------------------------------------------------------------------------
(* Properties of the crossings *)

\* g with only its first k placed words
FirstPlaced(g, k) == [g EXCEPT !.placedWords = SubSeq(g.placedWords, 1, k)]

\* every placement after the first added a cell covered by two or more words,
\* and so n placed words have at least n - 1 such cells
CrossingsGrow(g) ==
  /\ \A k \in 2..Len(g.placedWords) :
       CrossingCount(FirstPlaced(g, k)) > CrossingCount(FirstPlaced(g, k - 1))
  /\ Len(g.placedWords) >= 2 => CrossingCount(g) >= Len(g.placedWords) - 1

\* C30: in every grid of n >= 2 placed words built by accepted placements,
\* every placement after the first adds at least one new crossing, so at least
\* n - 1 cells are covered by two or more placed words, and the intersections
\* component is 1 for every candidate generatePuzzle returns.
C30_EveryPlacementAddsCrossing ==
  /\ CrossingsGrow(grid)
  /\ \A k \in 1..Len(results) : CrossingsGrow(results[k])
  /\ Returned =>
       \A k \in 1..Len(result.allCandidates) :
         /\ CrossingsGrow(result.allCandidates[k].puzzle.grid)
         /\ calculateIntersectionScore(result.allCandidates[k].puzzle.grid) = Rat(1, 1)

====
